---- MODULE Spec2Model ----
(***************************************************************************)
(* A model of tbn_engine: the Scene registry and its per-frame render pass *)
(* (src/src/scene.rs, src/src/surface.rs) on top of an abstract wgpu       *)
(* device/queue, and the texture-format conversion tables                  *)
(* (src/src/texture.rs).                                                   *)
(*                                                                         *)
(* Ids are 0-based as in the code; sequences are 1-based, so the record    *)
(* of id i is registry[i + 1].  Matrices are abstracted to integers with   *)
(* integer multiplication (1 is the identity).                             *)
(***************************************************************************)
EXTENDS Integers, Sequences, FiniteSets, TLC

VARIABLES
    debug_assertions,              \* build profile: are debug_assert!s compiled in
    surface_color_format,          \* Scene.surface_color_format
    surface_depth_stencil_format,  \* Scene.surface_depth_stencil_format
    mesh_registry,                 \* Scene.mesh_registry
    material_registry,             \* Scene.material_registry
    object_registry,               \* Scene.object_registry
    camera_registry,               \* Scene.camera_registry
    pipelines_created,             \* number of device.create_render_pipeline calls so far
    gpu_buffers,                   \* contents of the uniform buffers on the GPU
    pending_writes,                \* queue.write_buffer calls staged until the next submit
    panic,                         \* the call that panicked and its arguments, if one did
    handles,                       \* per kind, the ids returned so far, in order
    trace,                         \* what the last call or the frame in progress recorded:
                                   \* writes, pass and draw commands
    executed,                      \* the draws of the last submitted command buffer, as executed
    fmt_call,                      \* the last texture-format conversion: function, input, output
    program,                       \* which API the application draws with: Scene or Object
    index_buffer,                  \* the IndexBuffer the application created (Object API)
    test_object,                   \* the Object the application created (Object API)
    camera_ref,                    \* the Camera behind a CameraRef's Arc<Mutex<Camera>>
    camera_ref_locked_by,          \* the thread holding that mutex, if one does
    thread_pc,                     \* per thread, where it is inside the call it is making
    camera_copy,                   \* per thread, with_mut's local camera_copy
    closure,                       \* per thread, the closure with_mut was called with
    projection_call,               \* the last Camera::projection_matrix call: arguments, result
    window_surface,                \* the WindowSurface: format, physical_size, depth texture
    surface_configuration,         \* the configuration last given to wgpu_surface.configure
    depth_stencil_textures,        \* the depth-stencil textures created and not yet dropped
    window_frame,                  \* what the last WindowSurface::frame call did, in order
    object_id_counter,             \* Context.object_id_counter
    object_storages,               \* the Arc<Mutex<ObjectStorage>> allocations made so far
    object_refs,                   \* per thread, the allocation its ObjectRef points to
    object_call                    \* per thread, the call it is making or made last

scene_vars ==
    <<debug_assertions, surface_color_format, surface_depth_stencil_format,
      mesh_registry, material_registry, object_registry, camera_registry,
      pipelines_created, gpu_buffers, pending_writes, panic, handles, trace,
      executed>>

object_vars == <<program, index_buffer, test_object>>
context_vars ==
    <<camera_ref, camera_ref_locked_by, thread_pc, camera_copy, closure>>
window_vars ==
    <<window_surface, surface_configuration, depth_stencil_textures, window_frame>>
handle_vars ==
    <<object_id_counter, object_storages, object_refs, object_call>>
non_scene_vars ==
    <<fmt_call, object_vars, context_vars, projection_call, window_vars,
      handle_vars>>

vars == <<scene_vars, non_scene_vars>>

----------------------------------------------------------------------------
(* Bound of the model. *)

MaxObjects == 2

(* The inputs the operations are called with. *)

Identity == 1
Models == {Identity, 5}

(* The application registers, in this order, an orthographic camera        *)
(* (fov = 0.0) and a perspective camera (fov = 1.0 rad) with another view  *)
(* matrix, both with planes cgmath::perspective accepts; a mesh            *)
(* with a model-view uniform (a quad, 6 indices) and a mesh without one    *)
(* (a triangle, 3 indices); and one material.                              *)
(* An f32 is its sign bit and the 31 bits of its exponent and mantissa. *)
f32(negative, bits) == [negative |-> negative, bits |-> bits]
f32_zero == f32(FALSE, 0)
f32_one == f32(FALSE, 1065353216)

Cameras ==
    <<[view |-> 2, fov |-> f32_zero, near |-> 1, far |-> 9],
      [view |-> 3, fov |-> f32_one, near |-> 1, far |-> 9]>>
Meshes ==
    <<[has_model_view |-> TRUE, index_length |-> 6],
      [has_model_view |-> FALSE, index_length |-> 3]>>
Materials == <<"UniformFill">>
Inputs(instances, registered) ==
    IF registered < Len(instances) THEN {instances[registered + 1]} ELSE {}

SceneColorFormats == {"Rgba16Float"}
SceneDepthStencilFormats == {"Depth32Float", "Depth24Plus"}
SurfaceSizes == {<<4, 2>>}
SurfaceViews ==
    [format : SceneColorFormats,
     depth_stencil_format : SceneDepthStencilFormats,
     size : SurfaceSizes]
        \cup [format : {"Bgra8UnormSrgb"},
              depth_stencil_format : {"Depth32Float"},
              size : SurfaceSizes]

----------------------------------------------------------------------------
(* Option<T> *)

None == <<"None">>
Some(x) == <<"Some", x>>

(* wgpu::TextureFormat: a plain variant, or Astc { block, channel }. *)
wgpu(name) == <<"wgpu", name>>
wgpu_Astc(block, channel) == <<"wgpu", "Astc", block, channel>>

AstcBlock ==
    {"B4x4", "B5x4", "B5x5", "B6x5", "B6x6", "B8x5", "B8x6", "B8x8",
     "B10x5", "B10x6", "B10x8", "B10x10", "B12x10", "B12x12"}
AstcChannel == {"Unorm", "UnormSrgb", "Hdr"}

WgpuPlainFormats ==
    {"R8Unorm", "R8Snorm", "R8Uint", "R8Sint",
     "R16Uint", "R16Sint", "R16Unorm", "R16Snorm", "R16Float",
     "Rg8Unorm", "Rg8Snorm", "Rg8Uint", "Rg8Sint",
     "R32Uint", "R32Sint", "R32Float",
     "Rg16Uint", "Rg16Sint", "Rg16Unorm", "Rg16Snorm", "Rg16Float",
     "Rgba8Unorm", "Rgba8UnormSrgb", "Rgba8Snorm", "Rgba8Uint", "Rgba8Sint",
     "Bgra8Unorm", "Bgra8UnormSrgb",
     "Rgb9e5Ufloat", "Rgb10a2Uint", "Rgb10a2Unorm", "Rg11b10Ufloat",
     "R64Uint", "Rg32Uint", "Rg32Sint", "Rg32Float",
     "Rgba16Uint", "Rgba16Sint", "Rgba16Unorm", "Rgba16Snorm", "Rgba16Float",
     "Rgba32Uint", "Rgba32Sint", "Rgba32Float",
     "Stencil8", "Depth16Unorm", "Depth24Plus", "Depth24PlusStencil8",
     "Depth32Float", "Depth32FloatStencil8", "NV12",
     "Bc1RgbaUnorm", "Bc1RgbaUnormSrgb", "Bc2RgbaUnorm", "Bc2RgbaUnormSrgb",
     "Bc3RgbaUnorm", "Bc3RgbaUnormSrgb", "Bc4RUnorm", "Bc4RSnorm",
     "Bc5RgUnorm", "Bc5RgSnorm", "Bc6hRgbUfloat", "Bc6hRgbFloat",
     "Bc7RgbaUnorm", "Bc7RgbaUnormSrgb",
     "Etc2Rgb8Unorm", "Etc2Rgb8UnormSrgb", "Etc2Rgb8A1Unorm",
     "Etc2Rgb8A1UnormSrgb", "Etc2Rgba8Unorm", "Etc2Rgba8UnormSrgb",
     "EacR11Unorm", "EacR11Snorm", "EacRg11Unorm", "EacRg11Snorm"}

WgpuTextureFormat ==
    {wgpu(name) : name \in WgpuPlainFormats}
        \cup {wgpu_Astc(b, c) : b \in AstcBlock, c \in AstcChannel}

TextureFormat ==
    {"R8Unorm", "R8Snorm", "R16Unorm", "R16Snorm", "R16Float",
     "Rg8Unorm", "Rg8Snorm", "R32Uint", "R32Float", "Rg16Uint",
     "Rg16Unorm", "Rg16Snorm", "Rg16Float", "Rgba8Unorm", "Rgba8UnormSrgb",
     "Rgba8Snorm", "Rgba8Uint", "Bgra8Unorm", "Bgra8UnormSrgb", "Rgb9e5Ufloat",
     "Rgb10a2Uint", "Rgb10a2Unorm", "Rg11b10Ufloat", "R64Uint", "Rg32Uint",
     "Rg32Float", "Rgba16Uint", "Rgba16Unorm", "Rgba16Snorm", "Rgba16Float",
     "Rgba32Uint", "Rgba32Float"}

TextureFormat_to_wgpu_texture_format(self) ==
    CASE self = "R8Unorm" -> wgpu("R8Unorm")
      [] self = "R8Snorm" -> wgpu("R8Snorm")
      [] self = "R16Unorm" -> wgpu("R16Unorm")
      [] self = "R16Snorm" -> wgpu("R16Snorm")
      [] self = "R16Float" -> wgpu("R16Float")
      [] self = "Rg8Unorm" -> wgpu("Rg8Unorm")
      [] self = "Rg8Snorm" -> wgpu("Rg8Snorm")
      [] self = "R32Uint" -> wgpu("R32Uint")
      [] self = "R32Float" -> wgpu("R32Float")
      [] self = "Rg16Uint" -> wgpu("Rg16Uint")
      [] self = "Rg16Unorm" -> wgpu("Rg16Unorm")
      [] self = "Rg16Snorm" -> wgpu("Rg16Snorm")
      [] self = "Rg16Float" -> wgpu("Rg16Float")
      [] self = "Rgba8Unorm" -> wgpu("Rgba8Unorm")
      [] self = "Rgba8UnormSrgb" -> wgpu("Rgba8UnormSrgb")
      [] self = "Rgba8Snorm" -> wgpu("Rgba8Snorm")
      [] self = "Rgba8Uint" -> wgpu("Rgba8Uint")
      [] self = "Bgra8Unorm" -> wgpu("Bgra8Unorm")
      [] self = "Bgra8UnormSrgb" -> wgpu("Bgra8UnormSrgb")
      [] self = "Rgb9e5Ufloat" -> wgpu("Rgb9e5Ufloat")
      [] self = "Rgb10a2Uint" -> wgpu("Rgb10a2Uint")
      [] self = "Rgb10a2Unorm" -> wgpu("Rgb10a2Unorm")
      [] self = "Rg11b10Ufloat" -> wgpu("Rg11b10Ufloat")
      [] self = "R64Uint" -> wgpu("R64Uint")
      [] self = "Rg32Uint" -> wgpu("Rg32Uint")
      [] self = "Rg32Float" -> wgpu("Rg32Float")
      [] self = "Rgba16Uint" -> wgpu("Rgba16Uint")
      [] self = "Rgba16Unorm" -> wgpu("Rgba16Unorm")
      [] self = "Rgba16Snorm" -> wgpu("Rgba16Snorm")
      [] self = "Rgba16Float" -> wgpu("Rgba16Float")
      [] self = "Rgba32Uint" -> wgpu("Rgba32Uint")
      [] self = "Rgba32Float" -> wgpu("Rgba32Float")

TextureFormat_from_wgpu_texture_format(wgpu_format) ==
    CASE wgpu_format = wgpu("R8Unorm") -> Some("R8Unorm")
      [] wgpu_format = wgpu("R8Snorm") -> Some("R8Snorm")
      [] wgpu_format = wgpu("R16Unorm") -> Some("R16Unorm")
      [] wgpu_format = wgpu("R16Snorm") -> Some("R16Snorm")
      [] wgpu_format = wgpu("R16Float") -> Some("R16Float")
      [] wgpu_format = wgpu("Rg8Unorm") -> Some("Rg8Unorm")
      [] wgpu_format = wgpu("Rg8Snorm") -> Some("Rg8Snorm")
      [] wgpu_format = wgpu("R32Uint") -> Some("R32Uint")
      [] wgpu_format = wgpu("R32Float") -> Some("R32Float")
      [] wgpu_format = wgpu("Rg16Uint") -> Some("Rg16Uint")
      [] wgpu_format = wgpu("Rg16Unorm") -> Some("Rg16Unorm")
      [] wgpu_format = wgpu("Rg16Snorm") -> Some("Rg16Snorm")
      [] wgpu_format = wgpu("Rg16Float") -> Some("Rg16Float")
      [] wgpu_format = wgpu("Rgba8Unorm") -> Some("Rgba8Unorm")
      [] wgpu_format = wgpu("Rgba8UnormSrgb") -> Some("Rgba8UnormSrgb")
      [] wgpu_format = wgpu("Rgba8Snorm") -> Some("Rgba8Snorm")
      [] wgpu_format = wgpu("Rgba8Uint") -> Some("Rgba8Uint")
      [] wgpu_format = wgpu("Bgra8Unorm") -> Some("Bgra8Unorm")
      [] wgpu_format = wgpu("Bgra8UnormSrgb") -> Some("Bgra8UnormSrgb")
      [] wgpu_format = wgpu("Rgb9e5Ufloat") -> Some("Rgb9e5Ufloat")
      [] wgpu_format = wgpu("Rgb10a2Uint") -> Some("Rgb10a2Uint")
      [] wgpu_format = wgpu("Rgb10a2Unorm") -> Some("Rgb10a2Unorm")
      [] wgpu_format = wgpu("Rg11b10Ufloat") -> Some("Rg11b10Ufloat")
      [] wgpu_format = wgpu("R64Uint") -> Some("R64Uint")
      [] wgpu_format = wgpu("Rg32Uint") -> Some("Rg32Uint")
      [] wgpu_format = wgpu("Rg32Float") -> Some("Rg32Float")
      [] wgpu_format = wgpu("Rgba16Uint") -> Some("Rgba16Uint")
      [] wgpu_format = wgpu("Rgba16Unorm") -> Some("Rgba16Unorm")
      [] wgpu_format = wgpu("Rgba16Snorm") -> Some("Rgba16Snorm")
      [] wgpu_format = wgpu("Rgba16Float") -> Some("Rgba16Float")
      [] wgpu_format = wgpu("Rgba32Uint") -> Some("Rgba32Uint")
      [] wgpu_format = wgpu("Rgba32Float") -> Some("Rgba32Float")
      [] OTHER -> None

DepthStencilTextureFormat ==
    {"Stencil8", "Depth16Unorm", "Depth24Plus",
     "Depth24PlusStencil8", "Depth32Float", "Depth32FloatStencil8"}

DepthStencilTextureFormat_to_wgpu_texture_format(self) ==
    CASE self = "Stencil8" -> wgpu("Stencil8")
      [] self = "Depth16Unorm" -> wgpu("Depth16Unorm")
      [] self = "Depth24Plus" -> wgpu("Depth24Plus")
      [] self = "Depth24PlusStencil8" -> wgpu("Depth24PlusStencil8")
      [] self = "Depth32Float" -> wgpu("Depth32Float")
      [] self = "Depth32FloatStencil8" -> wgpu("Depth32FloatStencil8")

(* A table with the arms of two neighbouring variants exchanged. *)
DepthStencilTextureFormat_from_wgpu_texture_format_swapped(wgpu_format) ==
    CASE wgpu_format = wgpu("Stencil8") -> Some("Stencil8")
      [] wgpu_format = wgpu("Depth16Unorm") -> Some("Depth16Unorm")
      [] wgpu_format = wgpu("Depth24Plus") -> Some("Depth24PlusStencil8")
      [] wgpu_format = wgpu("Depth24PlusStencil8") -> Some("Depth24Plus")
      [] wgpu_format = wgpu("Depth32Float") -> Some("Depth32Float")
      [] wgpu_format = wgpu("Depth32FloatStencil8") -> Some("Depth32FloatStencil8")
      [] OTHER -> None

DepthStencilTextureFormat_from_wgpu_texture_format(wgpu_format) ==
    CASE wgpu_format = wgpu("Stencil8") -> Some("Stencil8")
      [] wgpu_format = wgpu("Depth16Unorm") -> Some("Depth16Unorm")
      [] wgpu_format = wgpu("Depth24Plus") -> Some("Depth24Plus")
      [] wgpu_format = wgpu("Depth24PlusStencil8") -> Some("Depth24PlusStencil8")
      [] wgpu_format = wgpu("Depth32Float") -> Some("Depth32Float")
      [] wgpu_format = wgpu("Depth32FloatStencil8") -> Some("Depth32FloatStencil8")
      [] OTHER -> None

(* Result<T, E> and Option::ok_or *)
Ok(x) == <<"Ok", x>>
Err(e) == <<"Err", e>>
ok_or(option, e) == IF option = None THEN Err(e) ELSE Ok(option[2])

TextureFormatFromWgpuTextureFormatError == "TextureFormatFromWgpuTextureFormatError"

(* A TryFrom for TextureFormat that consults the depth-stencil table. *)
TextureFormat_try_from_depth_stencil_table(value) ==
    ok_or(DepthStencilTextureFormat_from_wgpu_texture_format(value),
          TextureFormatFromWgpuTextureFormatError)

TextureFormat_try_from(value) ==
    ok_or(TextureFormat_from_wgpu_texture_format(value),
          TextureFormatFromWgpuTextureFormatError)

DepthStencilTextureFormat_try_from(value) ==
    ok_or(DepthStencilTextureFormat_from_wgpu_texture_format(value),
          TextureFormatFromWgpuTextureFormatError)

----------------------------------------------------------------------------
(* Registries (index_vec::IndexVec): 0-based ids over 1-based sequences. *)

InRange(registry, id) == id < Len(registry)
At(registry, id) == registry[id + 1]
push(registry, value) == Append(registry, value)

(* An id taken after the push instead of before it. *)
next_id_after_push(registry) == Len(registry) + 1

next_id(registry) == Len(registry)

(* cgmath: Matrix4 product, abstracted to integers. *)
mul(a, b) == a * b

(* Camera::view_matrix and Camera::projection_matrix *)
view_matrix(camera) == camera.view

(* f32 comparisons: NaN compares false with everything, -0.0 = +0.0. *)
f32_is_nan(x) == x.bits > 2139095040
f32_EPSILON == f32(FALSE, 872415232)
f32_PI == f32(FALSE, 1078530011)
f32_gt(x, y) ==
    /\ ~f32_is_nan(x) /\ ~f32_is_nan(y)
    /\ IF x.negative
       THEN y.negative /\ x.bits < y.bits
       ELSE IF y.negative THEN x.bits > 0 \/ y.bits > 0 ELSE x.bits > y.bits
f32_abs(x) == f32(FALSE, x.bits)
f32_signum(x) == IF f32_is_nan(x) THEN 0 ELSE IF x.negative THEN -1 ELSE 1

(* approx: abs_diff_eq!(x, 0.0) and ulps_eq!(x, 0.0) with the default      *)
(* epsilon (f32::EPSILON) and max_ulps (4).                                *)
abs_diff_eq_zero(x) == ~f32_is_nan(x) /\ ~f32_gt(f32_abs(x), f32_EPSILON)
ulps_eq_zero(x) ==
    \/ abs_diff_eq_zero(x)
    \/ f32_signum(x) = f32_signum(f32_zero) /\ x.bits <= 4

(* cgmath: <Rad<f32> as Zero>::is_zero is ulps_eq!(self, &Self::zero()). *)
Rad_is_zero(fov) == ulps_eq_zero(fov)

(* cgmath::ortho and cgmath::perspective.  A projection is named by the    *)
(* arguments it was built from; perspective asserts its arguments.         *)
NoProjection ==
    [kind |-> "none", left |-> 0, right |-> 0, bottom |-> 0, top |-> 0,
     fov |-> f32_zero, aspect |-> <<0, 0>>, near |-> 0, far |-> 0]
ortho(left, right, bottom, top, near, far) ==
    [NoProjection EXCEPT !.kind = "ortho", !.left = left, !.right = right,
                         !.bottom = bottom, !.top = top, !.near = near,
                         !.far = far]
perspective_panics(fovy, aspect, near, far) ==
    \/ ~f32_gt(fovy, f32_zero)
    \/ ~f32_gt(f32_PI, fovy)
    \/ aspect[1] = 0
    \/ ~(near > 0)
    \/ ~(far > 0)
    \/ far = near
perspective(fovy, aspect, near, far) ==
    IF perspective_panics(fovy, aspect, near, far)
    THEN [NoProjection EXCEPT !.kind = "panic"]
    ELSE [NoProjection EXCEPT !.kind = "perspective", !.fov = fovy,
                              !.aspect = aspect, !.near = near, !.far = far]

projection_matrix(camera, canvas_size) ==
    IF Rad_is_zero(camera.fov)
    THEN ortho(-(canvas_size[1] \div 2), canvas_size[1] \div 2,
               -(canvas_size[2] \div 2), canvas_size[2] \div 2, -1, 1)
    ELSE perspective(camera.fov, <<canvas_size[1], canvas_size[2]>>,
                     camera.near, camera.far)

(* Buffers the Scene writes: the projection uniform of the camera bind     *)
(* group and the model-view uniform owned by each mesh instance.           *)
ProjectionBuffer == [kind |-> "projection", mesh |-> 0]
ModelViewBuffer(mesh_id) == [kind |-> "model_view", mesh |-> mesh_id]

(* Bind groups and bind group layouts, named by what they were made from.  *)
CameraBindGroup == [kind |-> "camera", id |-> 0]
MeshBindGroup(mesh_id) == [kind |-> "mesh", id |-> mesh_id]
MaterialBindGroup(material_id) == [kind |-> "material", id |-> material_id]

(* MeshStorage::new and MaterialStorage::new: the stored record keeps the  *)
(* mesh instance (does it own a model-view uniform, how many indices) and  *)
(* the bind group created for it.  `instance` numbers the instances in the *)
(* order they were handed to the scene.                                    *)
MeshStorage_new(instance, mesh_instance) ==
    [has_model_view |-> mesh_instance.has_model_view,
     index_buffer_length |-> mesh_instance.index_length,
     wgpu_bind_group |-> MeshBindGroup(instance),
     bind_group_layout |-> MeshBindGroup(instance)]

MaterialStorage_new(instance) ==
    [wgpu_bind_group |-> MaterialBindGroup(instance),
     bind_group_layout |-> MaterialBindGroup(instance)]

(* The depth-stencil format ObjectStorage::new gives every pipeline. *)
PipelineDepthStencilFormat == "Depth32Float"

(* ObjectStorage::new, after its two registry lookups succeeded: builds    *)
(* the pipeline and the stored record.                                     *)
ObjectStorage_new(camera, mesh_id, material_id) ==
    [camera_id |-> camera,
     mesh_id |-> mesh_id,
     material_id |-> material_id,
     pipeline |->
        [id |-> pipelines_created,
         bind_group_layouts |->
            <<CameraBindGroup,
              At(mesh_registry, mesh_id).bind_group_layout,
              At(material_registry, material_id).bind_group_layout>>,
         color_format |-> surface_color_format,
         depth_stencil_format |-> PipelineDepthStencilFormat],
     model |-> Identity,
     is_hidden |-> FALSE]

(* Does ObjectStorage::new panic: scene.mesh(mesh_id) and                  *)
(* scene.material(material_id) index their registries.                     *)
ObjectStorage_new_panics(mesh_id, material_id) ==
    ~InRange(mesh_registry, mesh_id) \/ ~InRange(material_registry, material_id)

(* The three debug_assert!s at the top of Scene::add_object. *)
add_object_debug_assert_fails(camera, mesh, material) ==
    debug_assertions
        /\ (~InRange(mesh_registry, mesh)
            \/ ~InRange(material_registry, material)
            \/ ~InRange(camera_registry, camera))

----------------------------------------------------------------------------
(* Scene::render *)

(* The two debug_assert!s at the top of Scene::render. *)
render_debug_assert_fails(surface) ==
    debug_assertions
        /\ (surface.format # surface_color_format
            \/ surface.depth_stencil_format # surface_depth_stencil_format)

(* SurfaceView::render_pass: a new encoder with one render pass begun on   *)
(* the surface's color and depth-stencil views.                            *)
SurfaceView_render_pass(surface) ==
    <<[op |-> "begin_render_pass",
       color_format |-> surface.format,
       depth_stencil_format |-> surface.depth_stencil_format,
       size |-> surface.size]>>

(* A loop that visits the registry from the back. *)
object_ids_reversed ==
    [i \in 1..Len(object_registry) |-> Len(object_registry) - i]

(* The order in which `for object in &self.object_registry` visits ids. *)
object_ids == [i \in 1..Len(object_registry) |-> i - 1]

(* Lookups made only after the is_hidden test. *)
render_lookup_panics_unless_hidden(object) ==
    /\ ~object.is_hidden
    /\ \/ ~InRange(mesh_registry, object.mesh_id)
       \/ ~InRange(material_registry, object.material_id)
       \/ ~InRange(camera_registry, object.camera_id)

(* The three lookups at the top of the loop body index the registries. *)
render_lookup_panics(object) ==
    \/ ~InRange(mesh_registry, object.mesh_id)
    \/ ~InRange(material_registry, object.material_id)
    \/ ~InRange(camera_registry, object.camera_id)

(* A loop body that never tests is_hidden. *)
render_skips_nothing(object) == FALSE

(* Is the loop body skipped for this object. *)
render_skips(object) == object.is_hidden

(* Scene::update_projection_uniform *)
update_projection_uniform(viewport_size, camera, object_id) ==
    <<[op |-> "write_buffer", buffer |-> ProjectionBuffer,
       value |-> projection_matrix(camera, viewport_size),
       object |-> object_id]>>

(* A loop body that writes a model-view matrix for every mesh. *)
write_model_view_always(object_id, object) ==
    <<[op |-> "write_buffer", buffer |-> ModelViewBuffer(object.mesh_id),
       value |-> mul(view_matrix(At(camera_registry, object.camera_id)),
                     object.model),
       object |-> object_id]>>

(* The model-view write of the loop body. *)
write_model_view(object_id, object) ==
    IF At(mesh_registry, object.mesh_id).has_model_view
    THEN <<[op |-> "write_buffer", buffer |-> ModelViewBuffer(object.mesh_id),
            value |-> mul(view_matrix(At(camera_registry, object.camera_id)),
                          object.model),
            object |-> object_id]>>
    ELSE <<>>

(* Commands that bind the material at slot 1 and the mesh at slot 2. *)
draw_commands_slots_exchanged(object_id, object) ==
    LET mesh == At(mesh_registry, object.mesh_id)
        material == At(material_registry, object.material_id)
    IN  <<[op |-> "set_pipeline", pipeline |-> object.pipeline],
          [op |-> "set_bind_group", index |-> 1, bind_group |-> material.wgpu_bind_group],
          [op |-> "set_bind_group", index |-> 2, bind_group |-> mesh.wgpu_bind_group],
          [op |-> "set_vertex_buffer", slot |-> 0, mesh |-> object.mesh_id],
          [op |-> "set_index_buffer", mesh |-> object.mesh_id],
          [op |-> "draw_indexed", first_index |-> 0,
           index_count |-> mesh.index_buffer_length,
           base_vertex |-> 0, instances |-> 1, object |-> object_id]>>

(* The render-pass commands of the loop body. *)
draw_commands(object_id, object) ==
    LET mesh == At(mesh_registry, object.mesh_id)
        material == At(material_registry, object.material_id)
    IN  <<[op |-> "set_pipeline", pipeline |-> object.pipeline],
          [op |-> "set_bind_group", index |-> 1, bind_group |-> mesh.wgpu_bind_group],
          [op |-> "set_bind_group", index |-> 2, bind_group |-> material.wgpu_bind_group],
          [op |-> "set_vertex_buffer", slot |-> 0, mesh |-> object.mesh_id],
          [op |-> "set_index_buffer", mesh |-> object.mesh_id],
          [op |-> "draw_indexed", first_index |-> 0,
           index_count |-> mesh.index_buffer_length,
           base_vertex |-> 0, instances |-> 1, object |-> object_id]>>

(* The body of the loop for a visible object with valid ids. *)
render_object(object_id, object, surface) ==
    update_projection_uniform(surface.size, At(camera_registry, object.camera_id),
                              object_id)
        \o write_model_view(object_id, object)
        \o draw_commands(object_id, object)

(* The loop over the object registry.  A frame is what has been recorded   *)
(* so far and whether the call has panicked.                               *)
RECURSIVE render_loop(_, _, _)
render_loop(ids, surface, frame) ==
    IF ids = <<>> THEN frame
    ELSE LET object_id == Head(ids)
             object == At(object_registry, object_id)
         IN  IF render_lookup_panics(object)
             THEN [frame EXCEPT !.panicked = TRUE]
             ELSE IF render_skips(object)
             THEN render_loop(Tail(ids), surface, frame)
             ELSE render_loop(Tail(ids), surface,
                      [frame EXCEPT !.events =
                          @ \o render_object(object_id, object, surface)])

(* wgpu validates the pass when the encoder is finished: every pipeline    *)
(* set in the pass must have the formats of the pass's attachments.  A     *)
(* validation error goes to the default uncaptured-error handler, which    *)
(* panics.                                                                 *)
pass_is_valid(events) ==
    \A i \in 1..Len(events) :
        events[i].op = "set_pipeline" =>
            /\ events[i].pipeline.color_format = events[1].color_format
            /\ events[i].pipeline.depth_stencil_format
                   = events[1].depth_stencil_format

(* A finish that ends the pass and drops the encoder without submitting. *)
RenderPass_finish_without_submit(frame) ==
    IF frame.panicked THEN frame
    ELSE [frame EXCEPT !.events = @ \o <<[op |-> "end_render_pass"]>>]

(* RenderPass::finish: ends the pass, finishes the encoder, submits. *)
RenderPass_finish(frame) ==
    IF frame.panicked THEN frame
    ELSE LET ended == frame.events \o <<[op |-> "end_render_pass"]>>
         IN  IF pass_is_valid(ended)
             THEN [frame EXCEPT !.events = ended \o <<[op |-> "submit"]>>]
             ELSE [frame EXCEPT !.events = ended, !.panicked = TRUE]

(* The whole of Scene::render, as the sequence of events it causes. *)
render_frame(surface) ==
    IF render_debug_assert_fails(surface)
    THEN [events |-> <<>>, panicked |-> TRUE]
    ELSE RenderPass_finish(
             render_loop(object_ids, surface,
                 [events |-> SurfaceView_render_pass(surface)
                        \o <<[op |-> "set_bind_group", index |-> 0,
                              bind_group |-> CameraBindGroup]>>,
                  panicked |-> FALSE]))

----------------------------------------------------------------------------
(* The wgpu queue and the GPU. *)

(* queue.write_buffer stages a write; the writes staged so far are applied *)
(* in order at the next submit, before the submitted commands run.         *)
RECURSIVE apply_writes(_, _)
apply_writes(writes, buffers) ==
    IF writes = <<>> THEN buffers
    ELSE LET w == Head(writes)
         IN  apply_writes(Tail(writes),
                 IF w.buffer.kind = "projection"
                 THEN [buffers EXCEPT !.projection = w.value]
                 ELSE [buffers EXCEPT !.model_view[w.buffer.mesh + 1] = w.value])

writes_of(events) == SelectSeq(events, LAMBDA e : e.op = "write_buffer")

submitted(events) == \E i \in 1..Len(events) : events[i].op = "submit"

(* Execution of the commands of a pass against the buffer contents: each   *)
(* draw reads the uniforms of the bind groups bound when it was recorded.  *)
RECURSIVE execute(_, _, _, _)
execute(events, bound, buffers, draws) ==
    IF events = <<>> THEN draws
    ELSE LET e == Head(events)
         IN  IF e.op = "set_pipeline"
             THEN execute(Tail(events), [bound EXCEPT !.pipeline = e.pipeline],
                          buffers, draws)
             ELSE IF e.op = "set_bind_group"
             THEN execute(Tail(events),
                          [bound EXCEPT !.bind_groups[e.index + 1] = e.bind_group],
                          buffers, draws)
             ELSE IF e.op = "set_vertex_buffer"
             THEN execute(Tail(events), [bound EXCEPT !.vertex_buffer = e.mesh],
                          buffers, draws)
             ELSE IF e.op = "set_index_buffer"
             THEN execute(Tail(events), [bound EXCEPT !.index_buffer = e.mesh],
                          buffers, draws)
             ELSE IF e.op = "draw_indexed"
             THEN execute(Tail(events), bound, buffers,
                      Append(draws,
                          [object |-> e.object,
                           pipeline |-> bound.pipeline,
                           bind_groups |-> bound.bind_groups,
                           vertex_buffer |-> bound.vertex_buffer,
                           index_buffer |-> bound.index_buffer,
                           first_index |-> e.first_index,
                           index_count |-> e.index_count,
                           instances |-> e.instances,
                           projection |-> buffers.projection,
                           model_view |->
                               buffers.model_view[bound.bind_groups[2].id + 1]]))
             ELSE execute(Tail(events), bound, buffers, draws)

NoBindGroup == [kind |-> "none", id |-> 0]
NothingBound ==
    [pipeline |-> [id |-> -1],
     bind_groups |-> <<NoBindGroup, NoBindGroup, NoBindGroup>>,
     vertex_buffer |-> -1, index_buffer |-> -1]

----------------------------------------------------------------------------
(* The state after Scene::new, in either build profile. *)

(* The threads that hold clones of the CameraRef, and the state of a       *)
(* program that made no CameraRef.                                         *)
Threads == {"t1", "t2"}
NoCamera == [view |-> 0, fov |-> f32_zero, near |-> 0, far |-> 0]
NoClosure == [field |-> "none", locks |-> FALSE]
NoObjectCall == [op |-> "none", is_hidden |-> FALSE, id |-> 0, result |-> FALSE]
NoHandles ==
    /\ object_id_counter = 0
    /\ object_storages = <<>>
    /\ object_refs = [t \in Threads |-> 0]
    /\ object_call = [t \in Threads |-> NoObjectCall]
NoContext ==
    /\ NoHandles
    /\ camera_ref = NoCamera
    /\ camera_ref_locked_by = None
    /\ thread_pc = [t \in Threads |-> "idle"]
    /\ camera_copy = [t \in Threads |-> NoCamera]
    /\ closure = [t \in Threads |-> NoClosure]

(* No Camera::projection_matrix call made, no WindowSurface created. *)
NoProjectionCall ==
    [camera |-> NoCamera, canvas_size |-> <<0, 0>>, result |-> NoProjection]
NoWindowSurface ==
    /\ window_surface = None
    /\ surface_configuration = None
    /\ depth_stencil_textures = <<>>
    /\ window_frame = <<>>

NoPanic == [op |-> "none", args |-> <<>>]
NoFmtCall == [fn |-> "none", input |-> <<>>, output |-> <<>>]
IdentityProjection == [NoProjection EXCEPT !.kind = "identity"]

Init ==
    /\ debug_assertions \in BOOLEAN
    /\ surface_color_format \in SceneColorFormats
    /\ surface_depth_stencil_format \in SceneDepthStencilFormats
    /\ mesh_registry = <<>>
    /\ material_registry = <<>>
    /\ object_registry = <<>>
    /\ camera_registry = <<>>
    /\ pipelines_created = 0
    /\ gpu_buffers = [projection |-> IdentityProjection, model_view |-> <<>>]
    /\ pending_writes = <<>>
    /\ panic = NoPanic
    /\ handles = [mesh |-> <<>>, material |-> <<>>, camera |-> <<>>, object |-> <<>>]
    /\ trace = <<>>
    /\ executed = <<>>
    /\ fmt_call = NoFmtCall
    /\ program = "Scene"
    /\ index_buffer = None
    /\ test_object = None
    /\ NoContext
    /\ projection_call = NoProjectionCall
    /\ NoWindowSurface

(* A panic unwinds out of the program: nothing is called after it. *)
panicked == panic.op # "none"
panics(op, args) == panic' = [op |-> op, args |-> args]

add_mesh(mesh_instance) ==
    /\ ~panicked
    /\ mesh_registry' =
           push(mesh_registry, MeshStorage_new(Len(mesh_registry), mesh_instance))
    /\ gpu_buffers' =
           [gpu_buffers EXCEPT !.model_view =
               Append(@, IF mesh_instance.has_model_view THEN Identity ELSE 0)]
    /\ handles' = [handles EXCEPT !.mesh = Append(@, next_id(mesh_registry))]
    /\ UNCHANGED panic
    /\ trace' = <<>>
    /\ executed' = <<>>
    /\ UNCHANGED <<debug_assertions, surface_color_format,
                   surface_depth_stencil_format, material_registry,
                   object_registry, camera_registry, pipelines_created,
                   pending_writes, non_scene_vars>>

add_material(material_instance) ==
    /\ ~panicked
    /\ material_registry' =
           push(material_registry, MaterialStorage_new(Len(material_registry)))
    /\ handles' = [handles EXCEPT !.material = Append(@, next_id(material_registry))]
    /\ UNCHANGED panic
    /\ trace' = <<>>
    /\ executed' = <<>>
    /\ UNCHANGED <<debug_assertions, surface_color_format,
                   surface_depth_stencil_format, mesh_registry, object_registry,
                   camera_registry, pipelines_created, gpu_buffers,
                   pending_writes, non_scene_vars>>

add_camera(camera) ==
    /\ ~panicked
    /\ camera_registry' = push(camera_registry, camera)
    /\ handles' = [handles EXCEPT !.camera = Append(@, next_id(camera_registry))]
    /\ UNCHANGED panic
    /\ trace' = <<>>
    /\ executed' = <<>>
    /\ UNCHANGED <<debug_assertions, surface_color_format,
                   surface_depth_stencil_format, mesh_registry,
                   material_registry, object_registry, pipelines_created,
                   gpu_buffers, pending_writes, non_scene_vars>>

(* An add_object that defers the registry lookups and the pipeline to the  *)
(* first frame: nothing but the debug_assert!s looks at the ids.           *)
add_object_lazy(camera, mesh, material) ==
    /\ ~panicked
    /\ Len(object_registry) < MaxObjects
    /\ trace' = <<>>
    /\ executed' = <<>>
    /\ IF add_object_debug_assert_fails(camera, mesh, material)
       THEN /\ panics("add_object", <<camera, mesh, material>>)
            /\ UNCHANGED <<object_registry, handles>>
       ELSE /\ object_registry' =
                   push(object_registry,
                        [camera_id |-> camera, mesh_id |-> mesh,
                         material_id |-> material,
                         pipeline |->
                            [id |-> -1, bind_group_layouts |-> <<>>,
                             color_format |-> surface_color_format,
                             depth_stencil_format |-> PipelineDepthStencilFormat],
                         model |-> Identity, is_hidden |-> FALSE])
            /\ handles' = [handles EXCEPT !.object = Append(@, next_id(object_registry))]
            /\ UNCHANGED panic
    /\ UNCHANGED <<debug_assertions, surface_color_format,
                   surface_depth_stencil_format, mesh_registry,
                   material_registry, camera_registry, pipelines_created,
                   gpu_buffers, pending_writes, non_scene_vars>>

add_object(camera, mesh, material) ==
    /\ ~panicked
    /\ Len(object_registry) < MaxObjects
    /\ trace' = <<>>
    /\ executed' = <<>>
    /\ IF \/ add_object_debug_assert_fails(camera, mesh, material)
          \/ ObjectStorage_new_panics(mesh, material)
       THEN /\ panics("add_object", <<camera, mesh, material>>)
            /\ UNCHANGED <<object_registry, pipelines_created, handles>>
       ELSE /\ object_registry' =
                   push(object_registry, ObjectStorage_new(camera, mesh, material))
            /\ pipelines_created' = pipelines_created + 1
            /\ handles' = [handles EXCEPT !.object = Append(@, next_id(object_registry))]
            /\ UNCHANGED panic
    /\ UNCHANGED <<debug_assertions, surface_color_format,
                   surface_depth_stencil_format, mesh_registry,
                   material_registry, camera_registry, gpu_buffers,
                   pending_writes, non_scene_vars>>

(* A set_object_model that rebuilds the object's pipeline. *)
set_object_model_rebuilding(object_id, model) ==
    /\ ~panicked
    /\ trace' = <<>>
    /\ executed' = <<>>
    /\ IF InRange(object_registry, object_id)
       THEN /\ object_registry' =
                   [object_registry EXCEPT
                       ![object_id + 1].model = model,
                       ![object_id + 1].pipeline.id = pipelines_created]
            /\ pipelines_created' = pipelines_created + 1
            /\ UNCHANGED panic
       ELSE /\ panics("set_object_model", <<object_id, model>>)
            /\ UNCHANGED <<object_registry, pipelines_created>>
    /\ UNCHANGED <<debug_assertions, surface_color_format,
                   surface_depth_stencil_format, mesh_registry,
                   material_registry, camera_registry,
                   gpu_buffers, pending_writes, handles, non_scene_vars>>

set_object_model(object_id, model) ==
    /\ ~panicked
    /\ trace' = <<>>
    /\ executed' = <<>>
    /\ IF InRange(object_registry, object_id)
       THEN /\ object_registry' =
                   [object_registry EXCEPT ![object_id + 1].model = model]
            /\ UNCHANGED panic
       ELSE /\ panics("set_object_model", <<object_id, model>>)
            /\ UNCHANGED object_registry
    /\ UNCHANGED <<debug_assertions, surface_color_format,
                   surface_depth_stencil_format, mesh_registry,
                   material_registry, camera_registry, pipelines_created,
                   gpu_buffers, pending_writes, handles, non_scene_vars>>

(* A set_object_is_hidden that also resets the object's model. *)
set_object_is_hidden_resetting_model(object_id, is_hidden) ==
    /\ ~panicked
    /\ trace' = <<>>
    /\ executed' = <<>>
    /\ IF InRange(object_registry, object_id)
       THEN /\ object_registry' =
                   [object_registry EXCEPT ![object_id + 1].is_hidden = is_hidden,
                                           ![object_id + 1].model = Identity]
            /\ UNCHANGED panic
       ELSE /\ panics("set_object_is_hidden", <<object_id, is_hidden>>)
            /\ UNCHANGED object_registry
    /\ UNCHANGED <<debug_assertions, surface_color_format,
                   surface_depth_stencil_format, mesh_registry,
                   material_registry, camera_registry, pipelines_created,
                   gpu_buffers, pending_writes, handles, non_scene_vars>>

set_object_is_hidden(object_id, is_hidden) ==
    /\ ~panicked
    /\ trace' = <<>>
    /\ executed' = <<>>
    /\ IF InRange(object_registry, object_id)
       THEN /\ object_registry' =
                   [object_registry EXCEPT ![object_id + 1].is_hidden = is_hidden]
            /\ UNCHANGED panic
       ELSE /\ panics("set_object_is_hidden", <<object_id, is_hidden>>)
            /\ UNCHANGED object_registry
    /\ UNCHANGED <<debug_assertions, surface_color_format,
                   surface_depth_stencil_format, mesh_registry,
                   material_registry, camera_registry, pipelines_created,
                   gpu_buffers, pending_writes, handles, non_scene_vars>>

render(surface) ==
    /\ ~panicked
    /\ LET frame == render_frame(surface)
           staged == pending_writes \o writes_of(frame.events)
       IN  /\ trace' = frame.events
           /\ IF frame.panicked THEN panics("render", <<surface>>)
                                 ELSE UNCHANGED panic
           /\ IF submitted(frame.events)
              THEN /\ gpu_buffers' = apply_writes(staged, gpu_buffers)
                   /\ pending_writes' = <<>>
                   /\ executed' = execute(frame.events, NothingBound,
                                          apply_writes(staged, gpu_buffers), <<>>)
              ELSE /\ pending_writes' = staged
                   /\ executed' = <<>>
                   /\ UNCHANGED gpu_buffers
    /\ UNCHANGED <<debug_assertions, surface_color_format,
                   surface_depth_stencil_format, mesh_registry,
                   material_registry, object_registry, camera_registry,
                   pipelines_created, handles, non_scene_vars>>

Next ==
    \/ \E mesh_instance \in Inputs(Meshes, Len(mesh_registry)) :
           add_mesh(mesh_instance)
    \/ \E material_instance \in Inputs(Materials, Len(material_registry)) :
           add_material(material_instance)
    \/ \E camera \in Inputs(Cameras, Len(camera_registry)) : add_camera(camera)
    \/ \E camera \in 0..Len(camera_registry), mesh \in 0..Len(mesh_registry),
          material \in 0..Len(material_registry) :
           add_object(camera, mesh, material)
    \/ \E object_id \in 0..Len(object_registry), model \in Models :
           set_object_model(object_id, model)
    \/ \E object_id \in 0..Len(object_registry), is_hidden \in BOOLEAN :
           set_object_is_hidden(object_id, is_hidden)
    \/ \E surface \in SurfaceViews : render(surface)

Spec == Init /\ [][Next]_vars

----------------------------------------------------------------------------
(* The Object API (src/src/object.rs, src/src/buffers.rs) as               *)
(* src/src/main.rs uses it: the application creates an index buffer and an *)
(* Object over it, and draws a frame by beginning a render pass, calling   *)
(* set_model and draw on the object, and finishing the pass.               *)

(* Bound: set_model and draw calls recorded in one frame. *)
MaxCalls == 3

(* usize and u32 as little-endian sequences of 16-bit limbs: a usize has   *)
(* four limbs, a u32 has two.                                              *)
usize(n) == <<n, 0, 0, 0>>

(* The numbers of indices handed to IndexBuffer::create_init: 3, 6,        *)
(* u32::MAX, u32::MAX + 1 and u32::MAX + 7.                                *)
IndexCounts ==
    {usize(3), usize(6), <<65535, 65535, 0, 0>>, <<0, 0, 1, 0>>, <<6, 0, 1, 0>>}

(* A conversion that keeps the low 32 bits. *)
u32_from_usize_truncating(n) == Ok(<<n[1], n[2]>>)

(* u32::try_from(usize) *)
u32_try_from(n) ==
    IF n[3] = 0 /\ n[4] = 0 THEN Ok(<<n[1], n[2]>>) ELSE Err("TryFromIntError")

(* Result::unwrap *)
unwrap_panics(result) == result[1] = "Err"
unwrap(result) == result[2]

(* IndexBuffer::create_init and IndexBuffer::length *)
IndexBuffer_create_init_panics(contents_len) ==
    unwrap_panics(u32_try_from(contents_len))
IndexBuffer_create_init(contents_len) ==
    [length |-> unwrap(u32_try_from(contents_len))]
IndexBuffer_length(buffer) == buffer.length

(* The format Object::create hard-codes for the depth-stencil state. *)
ObjectPipelineDepthStencilFormat == "Depth32Float"

(* Object::create: the bind groups and the pipeline of one mesh and one    *)
(* material.                                                               *)
Object_create(surface_format, mesh) ==
    [mesh |-> mesh,
     pipeline |->
        [id |-> 0,
         bind_group_layouts |->
            <<CameraBindGroup, MeshBindGroup(0), MaterialBindGroup(0)>>,
         color_format |-> surface_format,
         depth_stencil_format |-> ObjectPipelineDepthStencilFormat],
     mesh_bind_group |-> MeshBindGroup(0),
     material_bind_group |-> MaterialBindGroup(0)]

(* Object::set_model: the writes it stages. *)
Object_set_model(self, model, camera) ==
    IF self.mesh.has_model_view
    THEN <<[op |-> "write_buffer", buffer |-> ModelViewBuffer(0),
            value |-> mul(view_matrix(camera), model), object |-> 0]>>
    ELSE <<>>

(* Object::draw: the commands it records. *)
Object_draw(self) ==
    <<[op |-> "set_pipeline", pipeline |-> self.pipeline],
      [op |-> "set_bind_group", index |-> 1, bind_group |-> self.mesh_bind_group],
      [op |-> "set_bind_group", index |-> 2, bind_group |-> self.material_bind_group],
      [op |-> "set_vertex_buffer", slot |-> 0, mesh |-> 0],
      [op |-> "set_index_buffer", mesh |-> 0],
      [op |-> "draw_indexed", first_index |-> 0,
       index_count |-> IndexBuffer_length(self.mesh.index_buffer),
       base_vertex |-> 0, instances |-> 1, object |-> 0]>>

InitObject ==
    /\ debug_assertions = TRUE
    /\ surface_color_format = "Rgba16Float"
    /\ surface_depth_stencil_format = "Depth32Float"
    /\ mesh_registry = <<>>
    /\ material_registry = <<>>
    /\ object_registry = <<>>
    /\ camera_registry = <<>>
    /\ pipelines_created = 0
    /\ gpu_buffers = [projection |-> IdentityProjection, model_view |-> <<>>]
    /\ pending_writes = <<>>
    /\ panic = NoPanic
    /\ handles = [mesh |-> <<>>, material |-> <<>>, camera |-> <<>>, object |-> <<>>]
    /\ trace = <<>>
    /\ executed = <<>>
    /\ fmt_call = NoFmtCall
    /\ program = "Object"
    /\ index_buffer = None
    /\ test_object = None
    /\ NoContext
    /\ projection_call = NoProjectionCall
    /\ NoWindowSurface

(* Is a render pass being recorded. *)
pass_in_progress == trace # <<>> /\ trace[Len(trace)].op # "submit"
calls_recorded ==
    Len(SelectSeq(trace, LAMBDA e : e.op \in {"write_buffer", "draw_indexed"}))

object_program_unchanged ==
    UNCHANGED <<debug_assertions, surface_color_format,
                surface_depth_stencil_format, mesh_registry, material_registry,
                object_registry, camera_registry, pipelines_created, handles,
                fmt_call, program, context_vars, projection_call,
                window_vars,
                   handle_vars>>

index_buffer_create_init(contents_len) ==
    /\ ~panicked
    /\ index_buffer = None
    /\ IF IndexBuffer_create_init_panics(contents_len)
       THEN /\ panics("IndexBuffer::create_init", <<contents_len>>)
            /\ UNCHANGED index_buffer
       ELSE /\ index_buffer' = Some(IndexBuffer_create_init(contents_len))
            /\ UNCHANGED panic
    /\ UNCHANGED <<gpu_buffers, pending_writes, trace, executed, test_object>>
    /\ object_program_unchanged

object_create(surface_format, has_model_view) ==
    /\ ~panicked
    /\ index_buffer # None
    /\ test_object = None
    /\ test_object' =
           Some(Object_create(surface_format,
                    [has_model_view |-> has_model_view,
                     index_buffer |-> index_buffer[2]]))
    /\ gpu_buffers' =
           [gpu_buffers EXCEPT !.model_view =
               Append(@, IF has_model_view THEN Identity ELSE 0)]
    /\ UNCHANGED <<pending_writes, trace, executed, panic, index_buffer>>
    /\ object_program_unchanged

object_render_pass(surface) ==
    /\ ~panicked
    /\ test_object # None
    /\ ~pass_in_progress
    /\ trace' = SurfaceView_render_pass(surface)
    /\ executed' = <<>>
    /\ UNCHANGED <<gpu_buffers, pending_writes, panic, index_buffer, test_object>>
    /\ object_program_unchanged

object_set_model(model, camera) ==
    /\ ~panicked
    /\ pass_in_progress
    /\ calls_recorded < MaxCalls
    /\ LET writes == Object_set_model(test_object[2], model, camera)
       IN  /\ trace' = trace \o writes
           /\ pending_writes' = pending_writes \o writes
    /\ UNCHANGED <<gpu_buffers, executed, panic, index_buffer, test_object>>
    /\ object_program_unchanged

object_draw ==
    /\ ~panicked
    /\ pass_in_progress
    /\ calls_recorded < MaxCalls
    /\ trace' = trace \o Object_draw(test_object[2])
    /\ UNCHANGED <<gpu_buffers, pending_writes, executed, panic, index_buffer,
                   test_object>>
    /\ object_program_unchanged

object_finish ==
    /\ ~panicked
    /\ pass_in_progress
    /\ LET frame == RenderPass_finish([events |-> trace, panicked |-> FALSE])
       IN  /\ trace' = frame.events
           /\ IF frame.panicked THEN panics("RenderPass::finish", <<>>)
                                 ELSE UNCHANGED panic
           /\ IF submitted(frame.events)
              THEN /\ gpu_buffers' = apply_writes(pending_writes, gpu_buffers)
                   /\ pending_writes' = <<>>
                   /\ executed' = execute(frame.events, NothingBound,
                                          apply_writes(pending_writes, gpu_buffers),
                                          <<>>)
              ELSE UNCHANGED <<gpu_buffers, pending_writes, executed>>
    /\ UNCHANGED <<index_buffer, test_object>>
    /\ object_program_unchanged

(* An application draws with the Scene API or with the Object API. *)
InitApp == Init \/ InitObject
SceneApp == program = "Scene"
ObjectApp == program = "Object"
NextApp ==
    \/ \E mesh_instance \in Inputs(Meshes, Len(mesh_registry)) :
           SceneApp /\ add_mesh(mesh_instance)
    \/ \E material_instance \in Inputs(Materials, Len(material_registry)) :
           SceneApp /\ add_material(material_instance)
    \/ \E camera \in Inputs(Cameras, Len(camera_registry)) :
           SceneApp /\ add_camera(camera)
    \/ \E camera \in 0..Len(camera_registry), mesh \in 0..Len(mesh_registry),
          material \in 0..Len(material_registry) :
           SceneApp /\ add_object(camera, mesh, material)
    \/ \E object_id \in 0..Len(object_registry), model \in Models :
           SceneApp /\ set_object_model(object_id, model)
    \/ \E object_id \in 0..Len(object_registry), is_hidden \in BOOLEAN :
           SceneApp /\ set_object_is_hidden(object_id, is_hidden)
    \/ \E surface \in SurfaceViews : SceneApp /\ render(surface)
    \/ \E contents_len \in IndexCounts :
           ObjectApp /\ index_buffer_create_init(contents_len)
    \/ \E has_model_view \in BOOLEAN :
           ObjectApp /\ object_create("Rgba16Float", has_model_view)
    \/ \E surface \in SurfaceViews : ObjectApp /\ object_render_pass(surface)
    \/ \E model \in Models : ObjectApp /\ object_set_model(model, Cameras[1])
    \/ ObjectApp /\ object_draw
    \/ ObjectApp /\ object_finish
SpecApp == InitApp /\ [][NextApp]_vars

----------------------------------------------------------------------------
(* The shared handles of src/src/context.rs: a CameraRef is an             *)
(* Arc<Mutex<Camera>>; threads holding clones of one CameraRef call        *)
(* with_mut on it.                                                         *)

(* The closures handed to with_mut: each assigns one field of the camera   *)
(* it is given, and may then lock the same CameraRef, as rendering with    *)
(* the camera does.                                                        *)
Closures == [field : {"fov", "near"}, locks : BOOLEAN]
call_closure(f, camera) ==
    IF f.field = "fov" THEN [camera EXCEPT !.fov = f32_one]
                       ELSE [camera EXCEPT !.near = 5]

(* Context::create_camera *)
InitContext ==
    /\ debug_assertions = TRUE
    /\ surface_color_format = "Rgba16Float"
    /\ surface_depth_stencil_format = "Depth32Float"
    /\ mesh_registry = <<>>
    /\ material_registry = <<>>
    /\ object_registry = <<>>
    /\ camera_registry = <<>>
    /\ pipelines_created = 0
    /\ gpu_buffers = [projection |-> IdentityProjection, model_view |-> <<>>]
    /\ pending_writes = <<>>
    /\ panic = NoPanic
    /\ handles = [mesh |-> <<>>, material |-> <<>>, camera |-> <<>>, object |-> <<>>]
    /\ trace = <<>>
    /\ executed = <<>>
    /\ fmt_call = NoFmtCall
    /\ program = "Context"
    /\ index_buffer = None
    /\ test_object = None
    /\ camera_ref = Cameras[1]
    /\ camera_ref_locked_by = None
    /\ thread_pc = [t \in Threads |-> "idle"]
    /\ camera_copy = [t \in Threads |-> NoCamera]
    /\ closure = [t \in Threads |-> NoClosure]
    /\ NoHandles
    /\ projection_call = NoProjectionCall
    /\ NoWindowSurface

(* Mutex::lock blocks while the mutex is held, by whichever thread. *)
can_lock == camera_ref_locked_by = None

(* A thread calls with_mut(f). *)
with_mut(t, f) ==
    /\ thread_pc[t] \in {"idle", "returned"}
    /\ thread_pc' = [thread_pc EXCEPT ![t] = "clone"]
    /\ closure' = [closure EXCEPT ![t] = f]
    /\ camera_copy' = [camera_copy EXCEPT ![t] = NoCamera]
    /\ UNCHANGED <<camera_ref, camera_ref_locked_by>>
    /\ UNCHANGED <<scene_vars, fmt_call, object_vars, projection_call,
                   window_vars,
                   handle_vars>>

(* A first statement that keeps the guard for the rest of with_mut. *)
with_mut_clone_keeping_guard(t) ==
    /\ thread_pc[t] = "clone"
    /\ can_lock
    /\ camera_copy' = [camera_copy EXCEPT ![t] = camera_ref]
    /\ camera_ref_locked_by' = Some(t)
    /\ thread_pc' = [thread_pc EXCEPT ![t] = "closure"]
    /\ UNCHANGED <<camera_ref, closure>>
    /\ UNCHANGED <<scene_vars, fmt_call, object_vars, projection_call,
                   window_vars,
                   handle_vars>>

(* let mut camera_copy = self.lock().clone(); the guard is a temporary,    *)
(* dropped at the end of the statement.                                    *)
with_mut_clone(t) ==
    /\ thread_pc[t] = "clone"
    /\ can_lock
    /\ camera_copy' = [camera_copy EXCEPT ![t] = camera_ref]
    /\ thread_pc' = [thread_pc EXCEPT ![t] = "closure"]
    /\ UNCHANGED <<camera_ref, camera_ref_locked_by, closure>>
    /\ UNCHANGED <<scene_vars, fmt_call, object_vars, projection_call,
                   window_vars,
                   handle_vars>>

(* let result = f(&mut camera_copy): the closure assigns its field ...     *)
closure_assign(t) ==
    /\ thread_pc[t] = "closure"
    /\ camera_copy' =
           [camera_copy EXCEPT ![t] = call_closure(closure[t], camera_copy[t])]
    /\ thread_pc' =
           [thread_pc EXCEPT
               ![t] = IF closure[t].locks THEN "closure_lock" ELSE "write_back"]
    /\ UNCHANGED <<camera_ref, camera_ref_locked_by, closure>>
    /\ UNCHANGED <<scene_vars, fmt_call, object_vars, projection_call,
                   window_vars,
                   handle_vars>>

(* ... and then locks the CameraRef, reads the camera and drops the guard. *)
closure_lock(t) ==
    /\ thread_pc[t] = "closure_lock"
    /\ can_lock
    /\ thread_pc' = [thread_pc EXCEPT ![t] = "write_back"]
    /\ UNCHANGED <<camera_ref, camera_ref_locked_by, camera_copy, closure>>
    /\ UNCHANGED <<scene_vars, fmt_call, object_vars, projection_call,
                   window_vars,
                   handle_vars>>

(* *self.lock() = camera_copy; result *)
with_mut_write_back(t) ==
    /\ thread_pc[t] = "write_back"
    /\ can_lock
    /\ camera_ref' = camera_copy[t]
    /\ thread_pc' = [thread_pc EXCEPT ![t] = "returned"]
    /\ UNCHANGED <<camera_ref_locked_by, camera_copy, closure>>
    /\ UNCHANGED <<scene_vars, fmt_call, object_vars, projection_call,
                   window_vars,
                   handle_vars>>

NextContext ==
    \/ \E t \in Threads, f \in Closures : with_mut(t, f)
    \/ \E t \in Threads : with_mut_clone(t)
    \/ \E t \in Threads : closure_assign(t)
    \/ \E t \in Threads : closure_lock(t)
    \/ \E t \in Threads : with_mut_write_back(t)

(* A thread that is inside with_mut and can take a step takes one. *)
inside_with_mut(t) ==
    with_mut_clone(t) \/ closure_assign(t) \/ closure_lock(t)
        \/ with_mut_write_back(t)

SpecContext ==
    /\ InitContext
    /\ [][NextContext]_vars
    /\ \A t \in Threads : WF_vars(inside_with_mut(t))

----------------------------------------------------------------------------
(* Context::create_object and the ObjectRef it returns                     *)
(* (src/src/context.rs): threads sharing one Context create objects, clone *)
(* each other's ObjectRef and call set_is_hidden and get_is_hidden.        *)

(* Bound: create_object calls. *)
MaxCreated == 2

(* AtomicU64::fetch_add: one indivisible step that adds and returns the    *)
(* previous value.                                                         *)
fetch_add_returning_new(counter, val) ==
    [previous |-> counter + val, counter |-> counter + val]

fetch_add(counter, val) == [previous |-> counter, counter |-> counter + val]

(* Context::new *)
InitHandles ==
    /\ debug_assertions = TRUE
    /\ surface_color_format = "Rgba16Float"
    /\ surface_depth_stencil_format = "Depth32Float"
    /\ mesh_registry = <<>>
    /\ material_registry = <<>>
    /\ object_registry = <<>>
    /\ camera_registry = <<>>
    /\ pipelines_created = 0
    /\ gpu_buffers = [projection |-> IdentityProjection, model_view |-> <<>>]
    /\ pending_writes = <<>>
    /\ panic = NoPanic
    /\ handles = [mesh |-> <<>>, material |-> <<>>, camera |-> <<>>, object |-> <<>>]
    /\ trace = <<>>
    /\ executed = <<>>
    /\ fmt_call = NoFmtCall
    /\ program = "Handles"
    /\ index_buffer = None
    /\ test_object = None
    /\ NoContext
    /\ projection_call = NoProjectionCall
    /\ NoWindowSurface

handles_program_unchanged ==
    UNCHANGED <<scene_vars, fmt_call, object_vars, camera_ref,
                camera_ref_locked_by, camera_copy, closure, projection_call,
                window_vars>>

between_calls(t) == thread_pc[t] \in {"idle", "returned"}
storage_of(t) == object_storages[object_refs[t]]

(* A thread calls create_object. *)
create_object(t) ==
    /\ between_calls(t)
    /\ object_id_counter < MaxCreated
    /\ thread_pc' = [thread_pc EXCEPT ![t] = "fetch_add"]
    /\ object_call' = [object_call EXCEPT ![t] = [NoObjectCall EXCEPT !.op = "create_object"]]
    /\ UNCHANGED <<object_id_counter, object_storages, object_refs>>
    /\ handles_program_unchanged

(* let id = self.increment_object_id_counter(); *)
increment_object_id_counter(t) ==
    /\ thread_pc[t] = "fetch_add"
    /\ LET r == fetch_add(object_id_counter, 1)
       IN  /\ object_id_counter' = r.counter
           /\ object_call' = [object_call EXCEPT ![t].id = r.previous]
    /\ thread_pc' = [thread_pc EXCEPT ![t] = "new"]
    /\ UNCHANGED <<object_storages, object_refs>>
    /\ handles_program_unchanged

(* ObjectRef::new(ObjectStorage::new(scene, id, ..)): a new allocation,    *)
(* unlocked, holding the id; `last_set` records the is_hidden of the       *)
(* writer that last acquired the mutex, the constructor counting as the    *)
(* first.                                                                  *)
ObjectRef_new(id) ==
    [id |-> id, is_hidden |-> FALSE, locked_by |-> None, last_set |-> FALSE]

create_object_return(t) ==
    /\ thread_pc[t] = "new"
    /\ object_storages' = Append(object_storages, ObjectRef_new(object_call[t].id))
    /\ object_refs' = [object_refs EXCEPT ![t] = Len(object_storages) + 1]
    /\ thread_pc' = [thread_pc EXCEPT ![t] = "returned"]
    /\ UNCHANGED <<object_id_counter, object_call>>
    /\ handles_program_unchanged

(* A clone that copies the ObjectStorage into an allocation of its own. *)
ObjectRef_clone_deep(t, u) ==
    /\ between_calls(t)
    /\ object_refs[u] # 0
    /\ object_refs[t] # object_refs[u]
    /\ Len(object_storages) < 2 * MaxCreated
    /\ object_storages' =
           Append(object_storages, [storage_of(u) EXCEPT !.locked_by = None])
    /\ object_refs' = [object_refs EXCEPT ![t] = Len(object_storages) + 1]
    /\ UNCHANGED <<object_id_counter, object_call, thread_pc>>
    /\ handles_program_unchanged

(* #[derive(Clone)] on a struct holding an Arc: thread t takes a clone of  *)
(* the ObjectRef of thread u, which points to the same allocation.         *)
ObjectRef_clone(t, u) ==
    /\ between_calls(t)
    /\ object_refs[u] # 0
    /\ object_refs[t] # object_refs[u]
    /\ object_refs' = [object_refs EXCEPT ![t] = object_refs[u]]
    /\ UNCHANGED <<object_id_counter, object_storages, object_call, thread_pc>>
    /\ handles_program_unchanged

(* A thread calls set_is_hidden(is_hidden) or get_is_hidden(). *)
set_is_hidden(t, is_hidden) ==
    /\ between_calls(t)
    /\ object_refs[t] # 0
    /\ thread_pc' = [thread_pc EXCEPT ![t] = "lock"]
    /\ object_call' =
           [object_call EXCEPT
               ![t] = [NoObjectCall EXCEPT !.op = "set_is_hidden",
                                           !.is_hidden = is_hidden]]
    /\ UNCHANGED <<object_id_counter, object_storages, object_refs>>
    /\ handles_program_unchanged

get_is_hidden(t) ==
    /\ between_calls(t)
    /\ object_refs[t] # 0
    /\ thread_pc' = [thread_pc EXCEPT ![t] = "lock"]
    /\ object_call' =
           [object_call EXCEPT ![t] = [NoObjectCall EXCEPT !.op = "get_is_hidden"]]
    /\ UNCHANGED <<object_id_counter, object_storages, object_refs>>
    /\ handles_program_unchanged

(* self.lock(): blocks while any thread holds the mutex of the allocation. *)
ObjectRef_lock(t) ==
    /\ thread_pc[t] = "lock"
    /\ storage_of(t).locked_by = None
    /\ object_storages' =
           [object_storages EXCEPT
               ![object_refs[t]] =
                   [@ EXCEPT !.locked_by = Some(t),
                             !.last_set =
                                 IF object_call[t].op = "set_is_hidden"
                                 THEN object_call[t].is_hidden ELSE @]]
    /\ thread_pc' = [thread_pc EXCEPT ![t] = "access"]
    /\ UNCHANGED <<object_id_counter, object_refs, object_call>>
    /\ handles_program_unchanged

(* .is_hidden = is_hidden, or the read of .is_hidden, through the guard. *)
ObjectRef_access(t) ==
    /\ thread_pc[t] = "access"
    /\ IF object_call[t].op = "set_is_hidden"
       THEN /\ object_storages' =
                   [object_storages EXCEPT
                       ![object_refs[t]].is_hidden = object_call[t].is_hidden]
            /\ UNCHANGED object_call
       ELSE /\ object_call' =
                   [object_call EXCEPT ![t].result = storage_of(t).is_hidden]
            /\ UNCHANGED object_storages
    /\ thread_pc' = [thread_pc EXCEPT ![t] = "unlock"]
    /\ UNCHANGED <<object_id_counter, object_refs>>
    /\ handles_program_unchanged

(* The guard, a temporary, is dropped at the end of the statement and the  *)
(* call returns.                                                           *)
ObjectRef_unlock(t) ==
    /\ thread_pc[t] = "unlock"
    /\ object_storages' =
           [object_storages EXCEPT ![object_refs[t]].locked_by = None]
    /\ thread_pc' = [thread_pc EXCEPT ![t] = "returned"]
    /\ UNCHANGED <<object_id_counter, object_refs, object_call>>
    /\ handles_program_unchanged

NextHandles ==
    \/ \E t \in Threads : create_object(t)
    \/ \E t \in Threads : increment_object_id_counter(t)
    \/ \E t \in Threads : create_object_return(t)
    \/ \E t, u \in Threads : ObjectRef_clone(t, u)
    \/ \E t \in Threads, is_hidden \in BOOLEAN : set_is_hidden(t, is_hidden)
    \/ \E t \in Threads : get_is_hidden(t)
    \/ \E t \in Threads : ObjectRef_lock(t)
    \/ \E t \in Threads : ObjectRef_access(t)
    \/ \E t \in Threads : ObjectRef_unlock(t)

SpecHandles == InitHandles /\ [][NextHandles]_vars

----------------------------------------------------------------------------
(* Camera::projection_matrix, applied to cameras of every kind of fov.     *)

(* +0.0, -0.0, the smallest subnormal, f32::EPSILON, the next f32 above    *)
(* it, 1.0, pi, -1.0, +infinity and a NaN.                                 *)
Fovs ==
    {f32_zero, f32(TRUE, 0), f32(FALSE, 1), f32_EPSILON, f32(FALSE, 872415233),
     f32_one, f32_PI, f32(TRUE, 1065353216), f32(FALSE, 2139095040),
     f32(FALSE, 2143289344)}
CameraInstances ==
    [view : {2}, fov : Fovs, near : {-1, 0, 1}, far : {1, 9}]
CanvasSizes == {<<4, 2>>, <<2, 2>>, <<0, 2>>}

InitCamera ==
    /\ debug_assertions = TRUE
    /\ surface_color_format = "Rgba16Float"
    /\ surface_depth_stencil_format = "Depth32Float"
    /\ mesh_registry = <<>>
    /\ material_registry = <<>>
    /\ object_registry = <<>>
    /\ camera_registry = <<>>
    /\ pipelines_created = 0
    /\ gpu_buffers = [projection |-> IdentityProjection, model_view |-> <<>>]
    /\ pending_writes = <<>>
    /\ panic = NoPanic
    /\ handles = [mesh |-> <<>>, material |-> <<>>, camera |-> <<>>, object |-> <<>>]
    /\ trace = <<>>
    /\ executed = <<>>
    /\ fmt_call = NoFmtCall
    /\ program = "Camera"
    /\ index_buffer = None
    /\ test_object = None
    /\ NoContext
    /\ projection_call = NoProjectionCall
    /\ NoWindowSurface

camera_projection_matrix(camera, canvas_size) ==
    /\ projection_call' =
           [camera |-> camera, canvas_size |-> canvas_size,
            result |-> projection_matrix(camera, canvas_size)]
    /\ UNCHANGED <<scene_vars, fmt_call, object_vars, context_vars, window_vars,
                   handle_vars>>

NextCamera ==
    \E camera \in CameraInstances, canvas_size \in CanvasSizes :
        camera_projection_matrix(camera, canvas_size)

SpecCamera == InitCamera /\ [][NextCamera]_vars

----------------------------------------------------------------------------
(* WindowSurface (src/src/surface.rs): created for a window, resized with  *)
(* it, and asked for a frame.                                              *)

(* Bound: resized calls. *)
MaxResizes == 2

(* What the adapter reports as capabilities.formats, and the sizes a       *)
(* window can have (0 x 0 when minimised).                                 *)
SurfaceCapabilities ==
    {<<>>, <<wgpu("Bgra8UnormSrgb"), wgpu("Bgra8Unorm")>>,
     <<wgpu("Rgba8Unorm")>>, <<wgpu("Rgba16Float")>>}
WindowSizes == {<<0, 0>>, <<4, 2>>, <<2, 2>>, <<8, 4>>}

(* wgpu rejects a texture and a surface configuration of zero area; the    *)
(* default error handler panics.                                           *)
zero_area(size) == size[1] = 0 \/ size[2] = 0

(* WindowSurface::create_depth_stencil_texture *)
create_depth_stencil_texture(size) ==
    [size |-> size, format |-> "Depth32Float", dropped |-> FALSE]

(* WindowSurface::configure_surface *)
configure_surface(self) ==
    [format |-> self.format,
     width |-> self.physical_size[1],
     height |-> self.physical_size[2]]

(* Dropping the texture a WindowSurface holds. *)
drop_texture(textures, id) == [textures EXCEPT ![id].dropped = TRUE]

InitWindow ==
    /\ debug_assertions = TRUE
    /\ surface_color_format = "Rgba16Float"
    /\ surface_depth_stencil_format = "Depth32Float"
    /\ mesh_registry = <<>>
    /\ material_registry = <<>>
    /\ object_registry = <<>>
    /\ camera_registry = <<>>
    /\ pipelines_created = 0
    /\ gpu_buffers = [projection |-> IdentityProjection, model_view |-> <<>>]
    /\ pending_writes = <<>>
    /\ panic = NoPanic
    /\ handles = [mesh |-> <<>>, material |-> <<>>, camera |-> <<>>, object |-> <<>>]
    /\ trace = <<>>
    /\ executed = <<>>
    /\ fmt_call = NoFmtCall
    /\ program = "Window"
    /\ index_buffer = None
    /\ test_object = None
    /\ NoContext
    /\ projection_call = NoProjectionCall
    /\ window_surface = None
    /\ surface_configuration = None
    /\ depth_stencil_textures = <<>>
    /\ window_frame = <<>>

window_program_unchanged ==
    UNCHANGED <<debug_assertions, surface_color_format,
                surface_depth_stencil_format, mesh_registry, material_registry,
                object_registry, camera_registry, pipelines_created,
                gpu_buffers, pending_writes, handles, trace, executed,
                fmt_call, object_vars, context_vars, projection_call,
                handle_vars>>

WindowSurface_new_panics(formats, size) ==
    \/ formats = <<>>
    \/ unwrap_panics(TextureFormat_try_from(formats[1]))
    \/ zero_area(size)

WindowSurface_new(formats, size) ==
    /\ ~panicked
    /\ window_surface = None
    /\ window_frame' = <<>>
    /\ IF WindowSurface_new_panics(formats, size)
       THEN /\ panics("WindowSurface::new", <<formats, size>>)
            /\ UNCHANGED <<window_surface, surface_configuration,
                           depth_stencil_textures>>
       ELSE LET self_ == [format |-> unwrap(TextureFormat_try_from(formats[1])),
                          depth_stencil_texture |-> 1,
                          physical_size |-> size]
            IN  /\ depth_stencil_textures' = <<create_depth_stencil_texture(size)>>
                /\ window_surface' = Some(self_)
                /\ surface_configuration' = Some(configure_surface(self_))
                /\ UNCHANGED panic
    /\ window_program_unchanged

(* A resized that keeps the depth-stencil texture it has. *)
WindowSurface_resized_keeping_texture(new_size) ==
    /\ ~panicked
    /\ window_surface # None
    /\ Len(depth_stencil_textures) <= MaxResizes
    /\ window_frame' = <<>>
    /\ LET self == [window_surface[2] EXCEPT !.physical_size = new_size]
       IN  IF zero_area(new_size)
           THEN /\ window_surface' = Some(self)
                /\ panics("WindowSurface::resized", <<new_size>>)
                /\ UNCHANGED <<surface_configuration, depth_stencil_textures>>
           ELSE /\ surface_configuration' = Some(configure_surface(self))
                /\ depth_stencil_textures' =
                       Append(depth_stencil_textures,
                              [create_depth_stencil_texture(new_size)
                                  EXCEPT !.dropped = TRUE])
                /\ window_surface' = Some(self)
                /\ UNCHANGED panic
    /\ window_program_unchanged

WindowSurface_resized(new_size) ==
    /\ ~panicked
    /\ window_surface # None
    /\ Len(depth_stencil_textures) <= MaxResizes
    /\ window_frame' = <<>>
    /\ LET self == [window_surface[2] EXCEPT !.physical_size = new_size]
       IN  IF zero_area(new_size)
           THEN /\ window_surface' = Some(self)
                /\ panics("WindowSurface::resized", <<new_size>>)
                /\ UNCHANGED <<surface_configuration, depth_stencil_textures>>
           ELSE /\ surface_configuration' = Some(configure_surface(self))
                /\ depth_stencil_textures' =
                       Append(drop_texture(depth_stencil_textures,
                                           self.depth_stencil_texture),
                              create_depth_stencil_texture(self.physical_size))
                /\ window_surface' =
                       Some([self EXCEPT !.depth_stencil_texture =
                                Len(depth_stencil_textures) + 1])
                /\ UNCHANGED panic
    /\ window_program_unchanged

(* The SurfaceView a frame hands to its callback: a view of the acquired   *)
(* surface texture, which has the configured size, declared to have        *)
(* physical_size, and a view of the depth-stencil texture.                 *)
WindowSurface_frame_view(self) ==
    [color_texture |->
        [format |-> self.format,
         size |-> self.physical_size,
         texture_size |-> <<surface_configuration[2].width,
                            surface_configuration[2].height>>],
     depth_stencil_texture |->
        [format |-> depth_stencil_textures[self.depth_stencil_texture].format,
         texture |-> self.depth_stencil_texture,
         size |-> depth_stencil_textures[self.depth_stencil_texture].size]]

(* The events of a frame whose surface texture was acquired: the callback, *)
(* which may panic, as a Scene::render in it can, and then                 *)
(* window.pre_present_notify() and surface_texture.present().              *)
WindowSurface_frame_events_presenting_first(self, f_panics) ==
    <<[op |-> "get_current_texture"],
      [op |-> "present"],
      [op |-> "f", surface |-> WindowSurface_frame_view(self)]>>
        \o (IF f_panics THEN <<>> ELSE <<[op |-> "pre_present_notify"]>>)

WindowSurface_frame_events(self, f_panics) ==
    <<[op |-> "get_current_texture"],
      [op |-> "f", surface |-> WindowSurface_frame_view(self)]>>
        \o (IF f_panics THEN <<>>
                        ELSE <<[op |-> "pre_present_notify"],
                               [op |-> "present"]>>)

(* WindowSurface::frame; get_current_texture can fail (timeout, outdated,  *)
(* lost), and the unwrap then panics.                                      *)
WindowSurface_frame(acquired, f_panics) ==
    /\ ~panicked
    /\ window_surface # None
    /\ IF ~acquired
       THEN /\ panics("WindowSurface::frame", <<"get_current_texture">>)
            /\ window_frame' = <<[op |-> "get_current_texture"]>>
       ELSE /\ window_frame' =
                   WindowSurface_frame_events(window_surface[2], f_panics)
            /\ IF f_panics THEN panics("WindowSurface::frame", <<"f">>)
                           ELSE UNCHANGED panic
    /\ UNCHANGED <<window_surface, surface_configuration, depth_stencil_textures>>
    /\ window_program_unchanged

NextWindow ==
    \/ \E formats \in SurfaceCapabilities, size \in WindowSizes :
           WindowSurface_new(formats, size)
    \/ \E new_size \in WindowSizes : WindowSurface_resized(new_size)
    \/ \E acquired, f_panics \in BOOLEAN :
           WindowSurface_frame(acquired, f_panics)

SpecWindow == InitWindow /\ [][NextWindow]_vars

----------------------------------------------------------------------------
(* The texture-format conversions, each applied to every input of its      *)
(* type.                                                                   *)

InitFormat ==
    /\ debug_assertions = TRUE
    /\ surface_color_format = "Rgba16Float"
    /\ surface_depth_stencil_format = "Depth32Float"
    /\ mesh_registry = <<>>
    /\ material_registry = <<>>
    /\ object_registry = <<>>
    /\ camera_registry = <<>>
    /\ pipelines_created = 0
    /\ gpu_buffers = [projection |-> IdentityProjection, model_view |-> <<>>]
    /\ pending_writes = <<>>
    /\ panic = NoPanic
    /\ handles = [mesh |-> <<>>, material |-> <<>>, camera |-> <<>>, object |-> <<>>]
    /\ trace = <<>>
    /\ executed = <<>>
    /\ fmt_call = NoFmtCall
    /\ program = "Scene"
    /\ index_buffer = None
    /\ test_object = None
    /\ NoContext
    /\ projection_call = NoProjectionCall
    /\ NoWindowSurface

convert(fn, input, output) ==
    /\ fmt_call' = [fn |-> fn, input |-> input, output |-> output]
    /\ UNCHANGED <<scene_vars, object_vars, context_vars, projection_call,
                   window_vars,
                   handle_vars>>

to_wgpu_texture_format(self) ==
    convert("TextureFormat::to_wgpu_texture_format", self,
            TextureFormat_to_wgpu_texture_format(self))

from_wgpu_texture_format(wgpu_format) ==
    convert("TextureFormat::from_wgpu_texture_format", wgpu_format,
            TextureFormat_from_wgpu_texture_format(wgpu_format))

try_from(value) ==
    convert("TextureFormat::try_from", value, TextureFormat_try_from(value))

depth_stencil_to_wgpu_texture_format(self) ==
    convert("DepthStencilTextureFormat::to_wgpu_texture_format", self,
            DepthStencilTextureFormat_to_wgpu_texture_format(self))

depth_stencil_from_wgpu_texture_format(wgpu_format) ==
    convert("DepthStencilTextureFormat::from_wgpu_texture_format", wgpu_format,
            DepthStencilTextureFormat_from_wgpu_texture_format(wgpu_format))

depth_stencil_try_from(value) ==
    convert("DepthStencilTextureFormat::try_from", value,
            DepthStencilTextureFormat_try_from(value))

NextFormat ==
    \/ \E self \in TextureFormat : to_wgpu_texture_format(self)
    \/ \E wgpu_format \in WgpuTextureFormat : from_wgpu_texture_format(wgpu_format)
    \/ \E value \in WgpuTextureFormat : try_from(value)
    \/ \E self \in DepthStencilTextureFormat :
           depth_stencil_to_wgpu_texture_format(self)
    \/ \E wgpu_format \in WgpuTextureFormat :
           depth_stencil_from_wgpu_texture_format(wgpu_format)
    \/ \E value \in WgpuTextureFormat : depth_stencil_try_from(value)

SpecFormat == InitFormat /\ [][NextFormat]_vars

----------------------------------------------------------------------------
(* Properties of the scene and its render pass. *)

(* The events of one kind in a trace, and what a frame drew. *)
events_of(events, op) == SelectSeq(events, LAMBDA e : e.op = op)
draws == events_of(trace, "draw_indexed")
drawn(object_id) == \E i \in 1..Len(draws) : draws[i].object = object_id
visible(object_id) == ~At(object_registry, object_id).is_hidden
ObjectIds == 0..(Len(object_registry) - 1)
(* The last call was a Scene::render that returned. *)
rendered == submitted(trace)

(* C1: the draw calls of a frame are recorded in registration order: the   *)
(* recorded draws have strictly increasing object ids, and of two visible  *)
(* objects a frame that returned has drawn the one with the smaller id     *)
(* first, whatever models and visibilities were set before.                *)
C1_DrawsInRegistrationOrder ==
    /\ \A i, j \in 1..Len(draws) : i < j => draws[i].object < draws[j].object
    /\ rendered =>
           \A a, b \in ObjectIds :
               (a < b /\ visible(a) /\ visible(b)) =>
                   \E i, j \in 1..Len(draws) :
                       i < j /\ draws[i].object = a /\ draws[j].object = b

C1_Witness ==
    /\ rendered
    /\ Len(object_registry) = 2
    /\ drawn(0) /\ drawn(1)
    /\ object_registry[1].model # Identity

(* C2: a frame that returned holds exactly one draw call for every object  *)
(* that is not hidden, and no frame holds a draw call or a uniform write   *)
(* for an object that is hidden.                                           *)
C2_HiddenSkipped ==
    /\ \A i \in 1..Len(trace) :
           trace[i].op \in {"draw_indexed", "write_buffer"} =>
               visible(trace[i].object)
    /\ rendered =>
           \A o \in ObjectIds :
               visible(o) =>
                   Cardinality({i \in 1..Len(draws) : draws[i].object = o}) = 1

C2_Witness ==
    /\ rendered
    /\ Len(object_registry) = 2
    /\ ~visible(0) /\ visible(1)
    /\ ~drawn(0) /\ drawn(1)

(* C3: add_object called with a mesh id or a material id that is not less  *)
(* than the number of registered meshes or materials panics, and the       *)
(* object registry (and the count of pipelines) stays as it was.           *)
C3_OutOfRangeMeshOrMaterialPanics ==
    [][\A camera \in 0..Len(camera_registry), mesh \in 0..Len(mesh_registry),
          material \in 0..Len(material_registry) :
            (/\ add_object(camera, mesh, material)
             /\ \/ ~InRange(mesh_registry, mesh)
                \/ ~InRange(material_registry, material))
                => /\ panic' = [op |-> "add_object",
                                args |-> <<camera, mesh, material>>]
                   /\ object_registry' = object_registry
                   /\ pipelines_created' = pipelines_created]_vars

C3_Witness ==
    /\ ~debug_assertions
    /\ panic.op = "add_object"
    /\ InRange(camera_registry, panic.args[1])
    /\ ~InRange(mesh_registry, panic.args[2])
    /\ InRange(material_registry, panic.args[3])
    /\ Len(object_registry) = 1

(* C4: every stored object's camera_id, mesh_id and material_id index an   *)
(* existing entry of their registries.                                     *)
C4_StoredIdsInRange ==
    \A i \in 1..Len(object_registry) :
        /\ InRange(camera_registry, object_registry[i].camera_id)
        /\ InRange(mesh_registry, object_registry[i].mesh_id)
        /\ InRange(material_registry, object_registry[i].material_id)

(* C7: the pipeline of an object is created inside the add_object call     *)
(* that registers it, one new pipeline per registered object, and no step  *)
(* creates another pipeline or changes the pipeline an object holds.       *)
C7_PipelineCreatedAtRegistration ==
    [][/\ \A i \in 1..Len(object_registry) :
              /\ i <= Len(object_registry')
              /\ object_registry'[i].pipeline = object_registry[i].pipeline
       /\ IF Len(object_registry') > Len(object_registry)
          THEN /\ Len(object_registry') = Len(object_registry) + 1
               /\ pipelines_created' = pipelines_created + 1
               /\ object_registry'[Len(object_registry')].pipeline.id
                      = pipelines_created
          ELSE pipelines_created' = pipelines_created]_vars

C7_Witness ==
    /\ rendered
    /\ Len(draws) = 2
    /\ Len(object_registry) = 2
    /\ object_registry[1].pipeline.id = 0
    /\ object_registry[2].pipeline.id = 1
    /\ object_registry[1].model # Identity
    /\ pipelines_created = 2

(* C8: the k-th registration of a kind returned id k - 1, every id         *)
(* returned indexes an entry of its registry, and no step removes an entry *)
(* or moves another record under an id: meshes, materials and cameras stay *)
(* as registered, an object keeps its camera, mesh, material and pipeline. *)
Identities(registry) == [k \in 1..Len(registry) |-> k - 1]
identity_of(object) ==
    <<object.camera_id, object.mesh_id, object.material_id, object.pipeline>>

C8_HandlesUniqueAndLive ==
    /\ [](/\ handles.mesh = Identities(mesh_registry)
          /\ handles.material = Identities(material_registry)
          /\ handles.camera = Identities(camera_registry)
          /\ handles.object = Identities(object_registry))
    /\ [][/\ \A i \in 1..Len(mesh_registry) :
                 i <= Len(mesh_registry') /\ mesh_registry'[i] = mesh_registry[i]
          /\ \A i \in 1..Len(material_registry) :
                 /\ i <= Len(material_registry')
                 /\ material_registry'[i] = material_registry[i]
          /\ \A i \in 1..Len(camera_registry) :
                 /\ i <= Len(camera_registry')
                 /\ camera_registry'[i] = camera_registry[i]
          /\ \A i \in 1..Len(object_registry) :
                 /\ i <= Len(object_registry')
                 /\ identity_of(object_registry'[i])
                        = identity_of(object_registry[i])]_vars

C8_Witness ==
    /\ handles.mesh = <<0, 1>>
    /\ handles.camera = <<0, 1>>
    /\ handles.material = <<0>>
    /\ handles.object = <<0, 1>>
    /\ object_registry[1].mesh_id # object_registry[2].mesh_id

(* C9: a frame begins one render pass, first of all, and never a second;   *)
(* a render that returns has submitted exactly one command buffer, as the  *)
(* last thing it did, right after ending the pass, with every draw call    *)
(* recorded inside the pass; so it is with no object to draw.              *)
count(events, op) == Len(events_of(events, op))

C9_OnePassOneSubmit ==
    /\ trace # <<>> =>
           /\ trace[1].op = "begin_render_pass"
           /\ count(trace, "begin_render_pass") = 1
           /\ count(trace, "end_render_pass") <= 1
           /\ count(trace, "submit") <= 1
           /\ \A i \in 1..Len(trace) :
                  /\ trace[i].op = "end_render_pass" =>
                         \A j \in 1..Len(trace) :
                             trace[j].op = "draw_indexed" => j < i
                  /\ trace[i].op = "submit" =>
                         /\ i = Len(trace)
                         /\ trace[i - 1].op = "end_render_pass"
    /\ (trace # <<>> /\ ~panicked) => count(trace, "submit") = 1
    /\ panic.op = "render" => count(trace, "submit") = 0

C9_Witness ==
    /\ rendered
    /\ Len(object_registry) = 2
    /\ \A o \in ObjectIds : ~visible(o)
    /\ trace = <<trace[1], trace[2], [op |-> "end_render_pass"], [op |-> "submit"]>>

(* C10: every draw executed reads, as the model-view uniform of its mesh,  *)
(* the view matrix of its object's camera times its object's model.        *)
C10_ModelViewPerObject ==
    \A i \in 1..Len(executed) :
        LET object == At(object_registry, executed[i].object)
        IN  At(mesh_registry, object.mesh_id).has_model_view =>
                executed[i].model_view
                    = mul(view_matrix(At(camera_registry, object.camera_id)),
                          object.model)

(* C11: every draw executed reads, as the projection uniform of bind     *)
(* group 0, the projection matrix of its object's camera for the size of   *)
(* the surface rendered to.                                                *)
C11_ProjectionPerCamera ==
    \A i \in 1..Len(executed) :
        LET object == At(object_registry, executed[i].object)
        IN  executed[i].projection
                = projection_matrix(At(camera_registry, object.camera_id),
                                    trace[1].size)

(* C12: the model matrix of an object whose mesh has no model-view        *)
(* uniform is never written anywhere: no frame records or stages a         *)
(* model-view write for such an object, set_object_model itself stages     *)
(* and writes nothing, and Object::set_model on such a mesh leaves the     *)
(* queue as it was; the object is drawn all the same, by a Scene::render   *)
(* that returns when it is visible and by every Object::draw.              *)
mesh_of(object_id) ==
    IF SceneApp
    THEN At(mesh_registry, At(object_registry, object_id).mesh_id)
    ELSE test_object[2].mesh
is_model_view_write(e) == e.op = "write_buffer" /\ e.buffer.kind = "model_view"

C12_NoModelViewWriteWithoutUniform ==
    /\ [](/\ \A i \in 1..Len(trace) :
                 is_model_view_write(trace[i]) =>
                     mesh_of(trace[i].object).has_model_view
          /\ \A i \in 1..Len(pending_writes) :
                 is_model_view_write(pending_writes[i]) =>
                     mesh_of(pending_writes[i].object).has_model_view
          /\ (SceneApp /\ rendered) =>
                 \A o \in ObjectIds :
                     (visible(o) /\ ~mesh_of(o).has_model_view) => drawn(o))
    /\ [][/\ (\E object_id \in ObjectIds, model \in Models :
                  SceneApp /\ set_object_model(object_id, model))
              => /\ pending_writes' = pending_writes
                 /\ gpu_buffers' = gpu_buffers
          /\ (\E model \in Models :
                  /\ ObjectApp /\ object_set_model(model, Cameras[1])
                  /\ ~test_object[2].mesh.has_model_view)
              => /\ pending_writes' = pending_writes
                 /\ gpu_buffers' = gpu_buffers
                 /\ trace' = trace
          /\ (ObjectApp /\ object_draw)
              => count(trace', "draw_indexed") = count(trace, "draw_indexed") + 1
         ]_vars

C12_Witness ==
    /\ SceneApp /\ rendered
    /\ Len(object_registry) = 2
    /\ ~mesh_of(0).has_model_view
    /\ object_registry[1].model # Identity
    /\ drawn(0)
    /\ mesh_of(1).has_model_view
    /\ \E i \in 1..Len(trace) :
           is_model_view_write(trace[i]) /\ trace[i].object = 1

(* C13: set_object_is_hidden(id, h) leaves object id with is_hidden = h   *)
(* and every other field as it was, set_object_model(id, m) leaves it with *)
(* model = m and every other field as it was; neither changes another      *)
(* object, a registry's length or contents, the pipelines or the buffers;  *)
(* with an id that is not registered each panics and the scene stays as it *)
(* was.                                                                    *)
scene_but_objects ==
    <<mesh_registry, material_registry, camera_registry, pipelines_created,
      gpu_buffers, pending_writes, handles>>
only_object_changed(object_id) ==
    /\ Len(object_registry') = Len(object_registry)
    /\ \A i \in 1..Len(object_registry) :
           i # object_id + 1 => object_registry'[i] = object_registry[i]
    /\ UNCHANGED scene_but_objects
    /\ UNCHANGED panic

C13_SettersTouchOnlyTarget ==
    [][/\ \A object_id \in 0..Len(object_registry), is_hidden \in BOOLEAN :
              set_object_is_hidden(object_id, is_hidden) =>
                  IF object_id \in ObjectIds
                  THEN /\ only_object_changed(object_id)
                       /\ At(object_registry', object_id)
                              = [At(object_registry, object_id)
                                    EXCEPT !.is_hidden = is_hidden]
                  ELSE /\ panic'.op = "set_object_is_hidden"
                       /\ UNCHANGED <<object_registry, scene_but_objects>>
       /\ \A object_id \in 0..Len(object_registry), model \in Models :
              set_object_model(object_id, model) =>
                  IF object_id \in ObjectIds
                  THEN /\ only_object_changed(object_id)
                       /\ At(object_registry', object_id)
                              = [At(object_registry, object_id)
                                    EXCEPT !.model = model]
                  ELSE /\ panic'.op = "set_object_model"
                       /\ UNCHANGED <<object_registry, scene_but_objects>>
      ]_vars

C13_Witness ==
    /\ ~panicked
    /\ Len(object_registry) = 2
    /\ object_registry[1].model # Identity /\ ~object_registry[1].is_hidden
    /\ object_registry[2].model = Identity /\ object_registry[2].is_hidden
    /\ trace = <<>>

(* C16: when a registered object holds a camera, mesh or material id      *)
(* that does not index its registry, a render that gets as far as the loop *)
(* panics at the first such object, hidden or not: the frame is not        *)
(* submitted and records no draw call for that object or a later one.      *)
has_invalid_id(object_id) ==
    LET object == At(object_registry, object_id)
    IN  \/ object.mesh_id >= Len(mesh_registry)
        \/ object.material_id >= Len(material_registry)
        \/ object.camera_id >= Len(camera_registry)
last_call_was_render == trace # <<>>

C16_LookupBeforeHiddenTest ==
    last_call_was_render =>
        \A o \in ObjectIds :
            has_invalid_id(o) =>
                /\ panic.op = "render"
                /\ ~submitted(trace)
                /\ \A i \in 1..Len(draws) : draws[i].object < o

C16_Witness ==
    /\ last_call_was_render
    /\ Len(object_registry) = 2
    /\ has_invalid_id(0) /\ ~visible(0)
    /\ ~has_invalid_id(1) /\ visible(1)
    /\ panic.op = "render"
    /\ draws = <<>>

(* C17: a render pass is begun only on a surface whose color format and    *)
(* depth-stencil format are those the Scene was created with.             *)
C17_FormatMismatchPanicsFirst ==
    last_call_was_render =>
        /\ trace[1].color_format = surface_color_format
        /\ trace[1].depth_stencil_format = surface_depth_stencil_format

(* C18: every pipeline is built from the three bind group layouts          *)
(* [camera, mesh, material] of its object, and every draw call recorded    *)
(* by render finds bound, at that moment: the scene's camera bind group at *)
(* slot 0, the bind group of its object's mesh at slot 1, that of its      *)
(* object's material at slot 2, its object's pipeline, and the vertex and  *)
(* index buffers of its object's mesh.                                     *)
bound_at_draws == execute(trace, NothingBound, gpu_buffers, <<>>)

C18_BindGroupSlotsAgree ==
    /\ \A i \in 1..Len(object_registry) :
           LET object == object_registry[i]
           IN  (InRange(mesh_registry, object.mesh_id)
                    /\ InRange(material_registry, object.material_id)) =>
                   object.pipeline.bind_group_layouts
                       = <<CameraBindGroup,
                           At(mesh_registry, object.mesh_id).bind_group_layout,
                           At(material_registry, object.material_id)
                               .bind_group_layout>>
    /\ \A i \in 1..Len(bound_at_draws) :
           LET draw == bound_at_draws[i]
               object == At(object_registry, draw.object)
           IN  /\ draw.bind_groups
                      = <<CameraBindGroup,
                          At(mesh_registry, object.mesh_id).wgpu_bind_group,
                          At(material_registry, object.material_id)
                              .wgpu_bind_group>>
               /\ draw.bind_groups[2] = MeshBindGroup(object.mesh_id)
               /\ draw.bind_groups[3] = MaterialBindGroup(object.material_id)
               /\ draw.pipeline = object.pipeline
               /\ draw.vertex_buffer = object.mesh_id
               /\ draw.index_buffer = object.mesh_id

C18_Witness ==
    /\ rendered
    /\ Len(executed) = 2
    /\ executed[1].vertex_buffer = 1 /\ executed[2].vertex_buffer = 0
    /\ executed[1].bind_groups[2] = MeshBindGroup(1)
    /\ executed[2].bind_groups[2] = MeshBindGroup(0)
    /\ executed[1].pipeline.id = 0 /\ executed[2].pipeline.id = 1

(* C19: IndexBuffer::create_init called with more than u32::MAX indices   *)
(* panics and creates no buffer, and otherwise records as length the       *)
(* number of indices it was given; every draw call recorded, by            *)
(* Scene::render or by Object::draw, draws the indices 0..length of its    *)
(* object's mesh, from base vertex 0, as the one instance 0..1.            *)
index_buffer_length_of(object_id) ==
    IF SceneApp THEN mesh_of(object_id).index_buffer_length
                ELSE IndexBuffer_length(test_object[2].mesh.index_buffer)

C19_IndexBufferLength ==
    /\ [](\A i \in 1..Len(draws) :
              /\ draws[i].first_index = 0
              /\ draws[i].index_count = index_buffer_length_of(draws[i].object)
              /\ draws[i].base_vertex = 0
              /\ draws[i].instances = 1)
    /\ [](\A i \in 1..Len(executed) :
              /\ executed[i].first_index = 0
              /\ executed[i].index_count
                     = index_buffer_length_of(executed[i].object)
              /\ executed[i].instances = 1)
    /\ [][\A contents_len \in IndexCounts :
              (ObjectApp /\ index_buffer_create_init(contents_len)) =>
                  IF contents_len[3] # 0 \/ contents_len[4] # 0
                  THEN /\ panic'.op = "IndexBuffer::create_init"
                       /\ index_buffer' = None
                  ELSE /\ ~panicked'
                       /\ index_buffer' # None
                       /\ <<index_buffer'[2].length[1], index_buffer'[2].length[2],
                            0, 0>> = contents_len]_vars

C19_Witness ==
    /\ ObjectApp
    /\ index_buffer # None
    /\ index_buffer[2].length = <<65535, 65535>>
    /\ Len(executed) = 2
    /\ executed[2].index_count = <<65535, 65535>>

(* C22: after a render that returned, every object that is as add_object   *)
(* built it, visible with the identity model, was drawn, and when its mesh *)
(* has a model-view uniform its draw read the view matrix of its camera.   *)
C22_NewObjectDrawnWithView ==
    (rendered /\ ~panicked) =>
        \A o \in ObjectIds :
            LET object == At(object_registry, o)
            IN  (object.model = Identity /\ ~object.is_hidden) =>
                    \E i \in 1..Len(executed) :
                        /\ executed[i].object = o
                        /\ At(mesh_registry, object.mesh_id).has_model_view =>
                               executed[i].model_view
                                   = view_matrix(At(camera_registry,
                                                    object.camera_id))

(* C23: the pipeline of every object has the depth-stencil format the      *)
(* Scene was created with, and a frame begun on a surface of the Scene's   *)
(* depth-stencil format sets only pipelines of the format of its depth     *)
(* attachment.                                                             *)
C23_PipelineDepthFormatIsScenes ==
    /\ \A o \in ObjectIds :
           At(object_registry, o).pipeline.depth_stencil_format
               = surface_depth_stencil_format
    /\ (last_call_was_render
            /\ trace[1].depth_stencil_format = surface_depth_stencil_format) =>
           \A i \in 1..Len(trace) :
               trace[i].op = "set_pipeline" =>
                   trace[i].pipeline.depth_stencil_format
                       = trace[1].depth_stencil_format

----------------------------------------------------------------------------
(* Properties of Camera::projection_matrix. *)

(* C15: projection_matrix returns the orthographic projection over         *)
(* [-w/2, w/2] x [-h/2, h/2] when fov is +0.0 or -0.0, and for every other *)
(* fov a perspective projection with that fov, aspect ratio w/h and the    *)
(* camera's near and far.                                                  *)
C15_OrthographicIffFovZero ==
    projection_call # NoProjectionCall =>
        LET camera == projection_call.camera
            w == projection_call.canvas_size[1]
            h == projection_call.canvas_size[2]
        IN  IF camera.fov.bits = 0
            THEN projection_call.result
                     = ortho(-(w \div 2), w \div 2, -(h \div 2), h \div 2, -1, 1)
            ELSE /\ projection_call.result.kind = "perspective"
                 /\ projection_call.result.fov = camera.fov
                 /\ projection_call.result.aspect = <<w, h>>
                 /\ projection_call.result.near = camera.near
                 /\ projection_call.result.far = camera.far

----------------------------------------------------------------------------
(* Properties of the shared handles. *)

(* C14: no thread holds the camera's mutex while its closure runs; a       *)
(* with_mut call, whatever its closure, locking the same CameraRef or not, *)
(* returns; and the step that returns leaves the shared camera equal to    *)
(* the copy, the closure's assignment included.                            *)
C14_WithMutOnCopy ==
    /\ [](\A t \in Threads :
              thread_pc[t] \in {"closure", "closure_lock"} =>
                  camera_ref_locked_by # Some(t))
    /\ [][\A t \in Threads :
              with_mut_write_back(t) =>
                  /\ camera_ref' = camera_copy[t]
                  /\ call_closure(closure[t], camera_ref') = camera_ref'
                  /\ thread_pc'[t] = "returned"]_vars
    /\ \A t \in Threads : (thread_pc[t] = "clone") ~> (thread_pc[t] = "returned")

C14_Witness ==
    /\ thread_pc["t1"] = "returned"
    /\ closure["t1"].locks
    /\ closure["t1"].field = "near"
    /\ camera_ref = camera_copy["t1"]
    /\ camera_ref.near = 5
    /\ thread_pc["t2"] = "closure"

(* C24: when both threads have returned from with_mut calls whose closures *)
(* assign different fields, the shared camera has both assignments.        *)
C24_NoLostUpdate ==
    (/\ \A t \in Threads : thread_pc[t] = "returned"
     /\ closure["t1"].field # closure["t2"].field) =>
        \A t \in Threads : call_closure(closure[t], camera_ref) = camera_ref

(* C21: ObjectRefs of one object point to one allocation; a get_is_hidden  *)
(* returns the value of the set_is_hidden that last acquired the mutex of  *)
(* that allocation before it did (that of the constructor when there was   *)
(* none); and while no thread holds the mutex the stored is_hidden is that *)
(* value, so it stays what the last set_is_hidden wrote until the next.    *)
C21_ClonesAliasOneRecord ==
    /\ [](\A t, u \in Threads :
              (/\ object_refs[t] # 0
               /\ object_refs[u] # 0
               /\ storage_of(t).id = storage_of(u).id) =>
                  object_refs[t] = object_refs[u])
    /\ [](\A i \in 1..Len(object_storages) :
              object_storages[i].locked_by = None =>
                  object_storages[i].is_hidden = object_storages[i].last_set)
    /\ [][\A t \in Threads :
              (ObjectRef_access(t) /\ object_call[t].op = "get_is_hidden") =>
                  object_call'[t].result = storage_of(t).last_set]_vars

C21_Witness ==
    /\ object_refs["t1"] # 0
    /\ object_refs["t1"] = object_refs["t2"]
    /\ object_call["t1"].op = "set_is_hidden"
    /\ object_call["t1"].is_hidden
    /\ thread_pc["t1"] = "returned"
    /\ object_call["t2"].op = "get_is_hidden"
    /\ object_call["t2"].result
    /\ thread_pc["t2"] = "returned"

(* C25: the ids handed out so far, to calls that returned an ObjectRef and *)
(* to calls still building theirs, are as many as there were increments of *)
(* the counter, and they are 0 .. counter - 1.                             *)
creating == {t \in Threads : thread_pc[t] = "new"}
ids_handed_out ==
    {object_storages[i].id : i \in 1..Len(object_storages)}
        \cup {object_call[t].id : t \in creating}

C25_ObjectIdsDistinct ==
    /\ Len(object_storages) + Cardinality(creating) = object_id_counter
    /\ Cardinality(ids_handed_out) = object_id_counter
    /\ ids_handed_out = 0..(object_id_counter - 1)

C25_Witness ==
    /\ object_id_counter = 2
    /\ Len(object_storages) = 2
    /\ object_storages[1].id = 1
    /\ object_storages[2].id = 0

----------------------------------------------------------------------------
(* Properties of WindowSurface. *)

(* C20: after a WindowSurface::new and any resized calls that returned,    *)
(* the depth-stencil texture the WindowSurface holds has the size          *)
(* physical_size, which is the width and height last configured, and it is *)
(* the one texture not dropped; the SurfaceView a frame hands to its       *)
(* callback has color and depth-stencil views of that same size; and a     *)
(* resized that returns has dropped the texture held before and holds a    *)
(* new one.                                                                *)
held_texture == depth_stencil_textures[window_surface[2].depth_stencil_texture]
frame_views ==
    {window_frame[i].surface :
        i \in {j \in 1..Len(window_frame) : window_frame[j].op = "f"}}

C20_DepthTextureFollowsSize ==
    /\ []((window_surface # None /\ ~panicked) =>
              /\ held_texture.size = window_surface[2].physical_size
              /\ ~held_texture.dropped
              /\ \A i \in 1..Len(depth_stencil_textures) :
                     i # window_surface[2].depth_stencil_texture =>
                         depth_stencil_textures[i].dropped
              /\ <<surface_configuration[2].width, surface_configuration[2].height>>
                     = window_surface[2].physical_size
              /\ \A view \in frame_views :
                     /\ view.color_texture.size = view.depth_stencil_texture.size
                     /\ view.color_texture.texture_size
                            = view.depth_stencil_texture.size
                     /\ view.color_texture.size = window_surface[2].physical_size)
    /\ [][\A new_size \in WindowSizes :
              (WindowSurface_resized(new_size) /\ ~panicked') =>
                  /\ depth_stencil_textures'[window_surface[2].depth_stencil_texture]
                         .dropped
                  /\ window_surface'[2].depth_stencil_texture
                         # window_surface[2].depth_stencil_texture
                  /\ window_surface'[2].physical_size = new_size]_vars

C20_Witness ==
    /\ ~panicked
    /\ window_surface # None
    /\ Len(depth_stencil_textures) = 3
    /\ depth_stencil_textures[1].size = <<4, 2>>
    /\ depth_stencil_textures[2].size = <<2, 2>>
    /\ held_texture.size = <<8, 4>>
    /\ \E view \in frame_views : view.depth_stencil_texture.size = <<8, 4>>

(* C26: a frame that returned did exactly get_current_texture, the         *)
(* callback, pre_present_notify and present, in that order; in every       *)
(* frame, returned or not, the callback ran at most once and nothing was   *)
(* presented or notified before it returned; and the SurfaceView it was    *)
(* given has a color view of the WindowSurface's format and physical_size. *)
frame_ops == [i \in 1..Len(window_frame) |-> window_frame[i].op]
positions(op) == {i \in 1..Len(window_frame) : window_frame[i].op = op}

----------------------------------------------------------------------------
(* Properties of the texture-format conversions. *)

(* C5: converting a supported format to its wgpu format and back gives     *)
(* Some of the format started from, for every TextureFormat and every      *)
(* DepthStencilTextureFormat.                                              *)
C5_FormatRoundTrip ==
    /\ fmt_call.fn = "TextureFormat::to_wgpu_texture_format" =>
           TextureFormat_from_wgpu_texture_format(fmt_call.output)
               = Some(fmt_call.input)
    /\ fmt_call.fn = "DepthStencilTextureFormat::to_wgpu_texture_format" =>
           DepthStencilTextureFormat_from_wgpu_texture_format(fmt_call.output)
               = Some(fmt_call.input)

C5_Witness ==
    /\ fmt_call.fn = "DepthStencilTextureFormat::to_wgpu_texture_format"
    /\ fmt_call.input = "Depth24Plus"
    /\ fmt_call.output = wgpu("Depth24Plus")

(* C6: try_from gives Ok(f) exactly for the wgpu formats that are the      *)
(* image of a supported format f, with that f, and the error value for     *)
(* every other wgpu format; no wgpu format converts to both a              *)
(* TextureFormat and a DepthStencilTextureFormat.                          *)
TextureFormat_image(w) ==
    {f \in TextureFormat : TextureFormat_to_wgpu_texture_format(f) = w}
DepthStencilTextureFormat_image(w) ==
    {d \in DepthStencilTextureFormat :
        DepthStencilTextureFormat_to_wgpu_texture_format(d) = w}
try_from_is_exact(image, output) ==
    IF image = {}
    THEN output = Err(TextureFormatFromWgpuTextureFormatError)
    ELSE \E f \in image : image = {f} /\ output = Ok(f)

C6_TryFromExact ==
    /\ fmt_call.fn = "TextureFormat::try_from" =>
           try_from_is_exact(TextureFormat_image(fmt_call.input), fmt_call.output)
    /\ fmt_call.fn = "DepthStencilTextureFormat::try_from" =>
           try_from_is_exact(DepthStencilTextureFormat_image(fmt_call.input),
                             fmt_call.output)
    /\ fmt_call.fn \in {"TextureFormat::try_from",
                        "DepthStencilTextureFormat::try_from"} =>
           ~(/\ TextureFormat_try_from(fmt_call.input)[1] = "Ok"
             /\ DepthStencilTextureFormat_try_from(fmt_call.input)[1] = "Ok")

C6_Witness ==
    /\ fmt_call.fn = "TextureFormat::try_from"
    /\ fmt_call.input = wgpu("Depth32Float")
    /\ fmt_call.output = Err(TextureFormatFromWgpuTextureFormatError)
====
